---- MODULE Spec2Model ----
(***************************************************************************)
(* Model of cds_ils/migrator/api.py: the resolvers, the parent, document,  *)
(* item, user and loan orchestrators, the volume splitter, the multipart   *)
(* and serial linking passes and the validators.                           *)
(*                                                                         *)
(* An orchestrator is a loop over its dump: one action per iteration, the  *)
(* record of the iteration chosen when it starts.  `run` is the running    *)
(* orchestrator and how it ended, `last` what the latest iteration or call *)
(* was given and what it did.                                              *)
(*                                                                         *)
(* A Python dict is a function whose DOMAIN is the set of its keys, so     *)
(* `"k" in d` is "k" \in DOMAIN d and `del d["k"]` restricts the domain.   *)
(* A record store is a function from PID to record; a search index is a    *)
(* function from PID to the record as it was when it was indexed.          *)
(* Volume ordinals are the dump's one-character volume strings "1".."9",   *)
(* written 1..9 and ordered as sorted() orders them; str() of a string is  *)
(* the string itself.                                                      *)
(***************************************************************************)
EXTENDS Integers, Sequences, FiniteSets, TLC

\* ---- bounds of the model ----
MaxDup == 2
MaxKey == 2
MaxItems == 3

VARIABLES docs, series, locs, libraries, items, loans, rels, accounts,
          idxDocs, idxSeries, idxLocs, idxLibraries, idxItems, idxPatrons,
          nextPid, session, run, last

\* accounts is the extra_data of the RemoteAccount of each user, as
\* committed; session is db.session: the accounts or records added and not
\* yet committed; libraries is the store of the Library records
stores == <<docs, series, locs, libraries, items, loans, rels, accounts>>
indexes == <<idxDocs, idxSeries, idxLocs, idxLibraries, idxItems, idxPatrons>>
vars == <<docs, series, locs, libraries, items, loans, rels, accounts,
          idxDocs, idxSeries, idxLocs, idxLibraries, idxItems, idxPatrons,
          nextPid, session, run, last>>

\* ---- dict helpers ----
Has(d, k) == k \in DOMAIN d
Put(d, k, v) == (k :> v) @@ d
Del(d, k) == [x \in DOMAIN d \ {k} |-> d[x]]
EmptyDict == [x \in {} |-> 0]

\* Python's None, as the value of a key that is present
NoneVal == 0

\* ---- outcomes of a call ----
Return(rec) == [kind |-> "ok", rec |-> rec]
ReturnNone == [kind |-> "none"]
Raise(err, why) == [kind |-> "raise", err |-> err, why |-> why]

\* ---- the search collaborator: an exact-match term filter ----
TermHits(idx, field, value) ==
    {p \in DOMAIN idx : Has(idx[p], field) /\ idx[p][field] = value}

\* result.hits[0] of a result with a single hit
FirstHit(hits) == CHOOSE p \in hits : TRUE

\* ---- resolvers ----
\* the raise the loan loop keeps commented out (lines 367-370)
get_item_by_barcode_loan_error(barcode) ==
    LET hits == TermHits(idxItems, "barcode", barcode)
        hits_total == Cardinality(hits)
    IN  IF hits_total < 1 THEN Raise("LoanMigrationError", "not found")
        ELSE IF hits_total > 1 THEN Raise("ItemMigrationError", "more than one")
        ELSE Return(items[FirstHit(hits)])

get_item_by_barcode(barcode) ==
    LET hits == TermHits(idxItems, "barcode", barcode)
        hits_total == Cardinality(hits)
    IN  IF hits_total < 1 THEN Raise("ItemMigrationError", "not found")
        ELSE IF hits_total > 1 THEN Raise("ItemMigrationError", "more than one")
        ELSE Return(items[FirstHit(hits)])

get_user_by_person_id(person_id) ==
    LET hits == TermHits(idxPatrons, "person_id", person_id)
        hits_total == Cardinality(hits)
    IN  IF hits_total < 1 THEN ReturnNone
        ELSE IF hits_total > 1 THEN Raise("UserMigrationError", "more than one")
        ELSE Return(idxPatrons[FirstHit(hits)])

get_user_by_legacy_id(legacy_id) ==
    LET hits == TermHits(idxPatrons, "legacy_id", legacy_id)
        hits_total == Cardinality(hits)
    IN  IF hits_total < 1 THEN ReturnNone
        ELSE IF hits_total > 1 THEN Raise("UserMigrationError", "more than one")
        ELSE Return(idxPatrons[FirstHit(hits)])

get_internal_location_by_legacy_recid(legacy_recid) ==
    LET hits == TermHits(idxLocs, "legacy_id", legacy_recid)
        hits_total == Cardinality(hits)
    IN  IF hits_total < 1 THEN Raise("ItemMigrationError", "not found")
        ELSE IF hits_total > 1 THEN Raise("ItemMigrationError", "more than one")
        ELSE Return(locs[FirstHit(hits)])

MultipartHits(recid) ==
    {p \in TermHits(idxSeries, "legacy_recid", recid) :
        idxSeries[p].mode_of_issuance = "MULTIPART_MONOGRAPH"}

get_multipart_by_legacy_recid_raising(recid) ==
    LET hits == MultipartHits(recid)
        hits_total == Cardinality(hits)
    IN  IF hits_total < 1 THEN Raise("MultipartMigrationError", "not found")
        ELSE IF hits_total > 1
             THEN Raise("MultipartMigrationError", "more than one")
        ELSE Return(series[FirstHit(hits)])

get_multipart_by_legacy_recid(recid) ==
    LET hits == MultipartHits(recid)
        hits_total == Cardinality(hits)
    IN  IF hits_total < 1 THEN ReturnNone
        ELSE IF hits_total > 1
             THEN Raise("MultipartMigrationError", "more than one")
        ELSE Return(series[FirstHit(hits)])

get_document_by_legacy_recid(legacy_recid) ==
    LET hits == TermHits(idxDocs, "legacy_recid", legacy_recid)
        hits_total == Cardinality(hits)
    IN  IF hits_total < 1 THEN Raise("DocumentMigrationError", "not found")
        ELSE IF hits_total > 1
             THEN Raise("DocumentMigrationError", "more than one")
        ELSE Return(docs[FirstHit(hits)])

\* ---- record makers for the stores the orchestrators start from ----
MkDoc(pid, recid) ==
    [pid |-> pid, legacy_recid |-> recid, title |-> "T",
     _migration |-> [is_multipart |-> FALSE, has_serial |-> FALSE]]
MkSeries(pid, recid, mode) ==
    [pid |-> pid, legacy_recid |-> recid, title |-> "S",
     mode_of_issuance |-> mode]
MkLoc(pid, legacy_id) == [pid |-> pid, legacy_id |-> legacy_id]
MkItem(pid, barcode, document_pid, internal_location_pid) ==
    [pid |-> pid, barcode |-> barcode, document_pid |-> document_pid,
     internal_location_pid |-> internal_location_pid]
MkPatron(pid, key) == [pid |-> pid, person_id |-> key, legacy_id |-> key]

\* ---- stores and indexes holding cnt[k] records under natural key k ----
RECURSIVE Offset(_, _)
Offset(cnt, k) == IF k <= 1 THEN 0 ELSE Offset(cnt, k - 1) + cnt[k - 1]
Total(cnt) == Offset(cnt, Cardinality(DOMAIN cnt) + 1)
KeyAt(cnt, p) ==
    CHOOSE k \in DOMAIN cnt : Offset(cnt, k) < p /\ p <= Offset(cnt, k) + cnt[k]
DocWorld(cnt) == [p \in 1 .. Total(cnt) |-> MkDoc(p, KeyAt(cnt, p))]
LocWorld(cnt) == [p \in 1 .. Total(cnt) |-> MkLoc(p, KeyAt(cnt, p))]
PatronWorld(cnt) == [p \in 1 .. Total(cnt) |-> MkPatron(p, KeyAt(cnt, p))]
ItemWorld(cnt) == [p \in 1 .. Total(cnt) |-> MkItem(p, KeyAt(cnt, p), 1, 1)]
\* cnt[k] multiparts under recid k, and one serial under each recid
SeriesWorld(cnt) ==
    [p \in 1 .. (Total(cnt) + Cardinality(DOMAIN cnt)) |->
        IF p <= Total(cnt)
        THEN MkSeries(p, KeyAt(cnt, p), "MULTIPART_MONOGRAPH")
        ELSE MkSeries(p, p - Total(cnt), "SERIAL")]

\* the RemoteAccount of each patron: extra_data holds the legacy id once
\* import_users_from_json has stored it
AccountWorld(patrons) ==
    [p \in DOMAIN patrons |->
        IF Has(patrons[p], "legacy_id")
        THEN [legacy_id |-> patrons[p].legacy_id] ELSE EmptyDict]

Idle == [op |-> "idle", status |-> "done"]
Nothing == [op |-> "none"]

\* ---- import_record: a new persisted record under a freshly minted PID ----
import_record(store, dump) == Put(store, nextPid, Put(dump, "pid", nextPid))

\* ---- the database session of the per-record commits ----
\* import_record leaves the new record pending in the session;
\* db.session.commit() writes what is pending to the store, and
\* db.session.rollback() discards it
session_commit(store, pending) == pending @@ store

session_rollback_keeping(pending) == pending

session_rollback(pending) == <<>>

\* ---- clean_item_record: the legacy keys are not part of the Item ----
clean_item_record(record) == Del(Del(record, "id_crcLIBRARY"), "id_bibrec")

\* ---- import_items_from_json: one iteration of the loop over the dump ----
\* the `include` argument: None, or the list include.split(",")
IncludeAll == [all |-> TRUE, keys |-> {}]
IncludeOnly(keys) == [all |-> FALSE, keys |-> keys]
Included(include, key) == include.all \/ key \in include.keys

NotCalled == [kind |-> "notcalled"]

\* what one iteration does with `record`: the resolver outcomes, how the
\* iteration ends, and the Item store it leaves
import_items_iteration(record, clean_raises, import_raises, commit_raises) ==
    LET loc == get_internal_location_by_legacy_recid(record.id_crcLIBRARY)
        doc == get_document_by_legacy_recid(record.id_bibrec)
        item == get_item_by_barcode(record.barcode)
        base == [rec |-> record, loc |-> NotCalled, doc |-> NotCalled,
                 item |-> NotCalled, err |-> "", items |-> items,
                 minted |-> FALSE, session |-> session]
        pending == import_record(session,
                       clean_item_record(
                           Put(Put(record, "internal_location_pid",
                                   loc.rec.pid),
                               "document_pid", doc.rec.pid)))
    IN  IF ~Included(run.include, record.barcode)
        THEN [base EXCEPT !.err = ""] @@ [end |-> "filtered"]
        ELSE IF loc.kind = "raise"
        THEN [base EXCEPT !.loc = loc, !.err = loc.err] @@ [end |-> "raised"]
        ELSE IF doc.kind = "raise"
        THEN [base EXCEPT !.loc = loc, !.doc = doc] @@ [end |-> "continue"]
        ELSE IF clean_raises
        THEN [base EXCEPT !.loc = loc, !.doc = doc] @@ [end |-> "continue"]
        ELSE IF item.kind = "ok"
        THEN [base EXCEPT !.loc = loc, !.doc = doc, !.item = item]
             @@ [end |-> "continue"]
        ELSE IF import_raises
        THEN [base EXCEPT !.loc = loc, !.doc = doc, !.item = item,
                          !.err = "IlsValidationError"] @@ [end |-> "raised"]
        ELSE IF commit_raises
        THEN [base EXCEPT !.loc = loc, !.doc = doc, !.item = item,
                          !.session = session_rollback(pending)]
             @@ [end |-> "rolled back"]
        ELSE [base EXCEPT !.loc = loc, !.doc = doc, !.item = item,
                          !.minted = TRUE,
                          !.items = session_commit(items, pending),
                          !.session = <<>>]
             @@ [end |-> "committed"]

Keys3 == 1 .. 3
ItemRecords == [barcode : 1 .. 2, id_crcLIBRARY : Keys3, id_bibrec : Keys3]
Includes == {IncludeAll} \cup {IncludeOnly(S) : S \in (SUBSET (1 .. 2)) \ {{}}}

StartItems(include) ==
    /\ run.status # "running"
    /\ run' = [op |-> "items", status |-> "running", include |-> include,
               err |-> ""]
    /\ last' = Nothing
    /\ UNCHANGED <<stores, indexes, nextPid, session>>

ItemsStep(record, clean_raises, import_raises, commit_raises) ==
    /\ run.op = "items" /\ run.status = "running"
    /\ Cardinality(DOMAIN items) < MaxItems
    /\ LET it == import_items_iteration(record, clean_raises, import_raises,
                                        commit_raises)
       IN  /\ items' = it.items
           /\ session' = it.session
           /\ nextPid' = IF it.minted THEN nextPid + 1 ELSE nextPid
           /\ run' = IF it.end = "raised"
                     THEN [run EXCEPT !.status = "raised", !.err = it.err]
                     ELSE run
           /\ last' = [op |-> "items", rec |-> record, loc |-> it.loc,
                       doc |-> it.doc, item |-> it.item, end |-> it.end,
                       created |-> DOMAIN it.items \ DOMAIN items]
    /\ UNCHANGED <<docs, series, locs, libraries, loans, rels, indexes, accounts>>

\* the dump is exhausted: the loop and the function end
EndItems ==
    /\ run.op = "items" /\ run.status = "running"
    /\ run' = [run EXCEPT !.status = "done"]
    /\ last' = Nothing
    /\ UNCHANGED <<stores, indexes, nextPid, session>>

\* reindex_pidtype for the Item pid type, between two runs
ReindexItems ==
    /\ run.status # "running"
    /\ idxItems # items
    /\ idxItems' = items
    /\ last' = Nothing
    /\ UNCHANGED <<stores, idxDocs, idxSeries, idxLocs, idxLibraries, idxPatrons, nextPid,
                   run, session>>

\* ---- the store the item and loan orchestrators start from: natural key 1
\* names one record, key 2 names two, key 3 names none ----
OneAndTwo == [k \in 1 .. 2 |-> k]

InitItems ==
    /\ docs = DocWorld(OneAndTwo) /\ idxDocs = docs
    /\ locs = LocWorld(OneAndTwo) /\ idxLocs = locs
    /\ libraries = <<>> /\ idxLibraries = <<>>
    /\ idxPatrons = PatronWorld(OneAndTwo)
    /\ series = <<>> /\ idxSeries = <<>>
    /\ items = <<>> /\ idxItems = <<>>
    /\ loans = <<>> /\ rels = {}
    /\ accounts = AccountWorld(idxPatrons) /\ session = <<>>
    /\ nextPid = 10
    /\ run = Idle /\ last = Nothing

NextItems ==
    \/ \E include \in Includes : StartItems(include)
    \/ \E record \in ItemRecords, c, i, m \in BOOLEAN : ItemsStep(record, c, i, m)
    \/ EndItems
    \/ ReindexItems

SpecItems == InitItems /\ [][NextItems]_vars

\* ---- import_loans_from_json: one iteration of the loop over the dump ----
SystemAgentId == -2
default_location_pid_value == "default_location"

\* the status branches; a result without "state" stands for the else branch
loan_dict_returned_on_start(record, patron_pid, document_pid, item_pid) ==
    IF record.status = "on loan"
    THEN [patron_pid |-> patron_pid,
          transaction_location_pid |-> default_location_pid_value,
          transaction_user_pid |-> SystemAgentId,
          document_pid |-> document_pid, item_pid |-> item_pid,
          start_date |-> record.start_date, end_date |-> record.end_date,
          state |-> "ITEM_ON_LOAN", transaction_date |-> record.start_date]
    ELSE IF record.status = "returned"
    THEN [patron_pid |-> patron_pid,
          transaction_location_pid |-> default_location_pid_value,
          transaction_user_pid |-> SystemAgentId,
          transaction_date |-> record.start_date,
          document_pid |-> document_pid, item_pid |-> item_pid,
          start_date |-> record.start_date, end_date |-> record.returned_on,
          state |-> "ITEM_RETURNED"]
    ELSE EmptyDict

\* the loan on the document the dump names
loan_dict_of_legacy_document(record, patron_pid, document_pid, item_pid) ==
    IF record.status = "on loan"
    THEN [patron_pid |-> patron_pid,
          transaction_location_pid |-> default_location_pid_value,
          transaction_user_pid |-> SystemAgentId,
          document_pid |-> record.legacy_document_id, item_pid |-> item_pid,
          start_date |-> record.start_date, end_date |-> record.end_date,
          state |-> "ITEM_ON_LOAN", transaction_date |-> record.start_date]
    ELSE IF record.status = "returned"
    THEN [patron_pid |-> patron_pid,
          transaction_location_pid |-> default_location_pid_value,
          transaction_user_pid |-> SystemAgentId,
          transaction_date |-> record.returned_on,
          document_pid |-> record.legacy_document_id, item_pid |-> item_pid,
          start_date |-> record.start_date, end_date |-> record.returned_on,
          state |-> "ITEM_RETURNED"]
    ELSE EmptyDict

loan_dict(record, patron_pid, document_pid, item_pid) ==
    IF record.status = "on loan"
    THEN [patron_pid |-> patron_pid,
          transaction_location_pid |-> default_location_pid_value,
          transaction_user_pid |-> SystemAgentId,
          document_pid |-> document_pid, item_pid |-> item_pid,
          start_date |-> record.start_date, end_date |-> record.end_date,
          state |-> "ITEM_ON_LOAN", transaction_date |-> record.start_date]
    ELSE IF record.status = "returned"
    THEN [patron_pid |-> patron_pid,
          transaction_location_pid |-> default_location_pid_value,
          transaction_user_pid |-> SystemAgentId,
          transaction_date |-> record.returned_on,
          document_pid |-> document_pid, item_pid |-> item_pid,
          start_date |-> record.start_date, end_date |-> record.returned_on,
          state |-> "ITEM_RETURNED"]
    ELSE EmptyDict

\* document.get("legacy_recid", None)
GetOrNone(d, k) == IF Has(d, k) THEN d[k] ELSE NoneVal

\* "additional check if the loan refers to the same document as it is
\* already attached to the item" (lines 372-391)
document_cross_check_hard(document, record) ==
    IF record.legacy_document_id = NoneVal
    THEN Raise("LoanMigrationError", "no document id")
    ELSE IF GetOrNone(document, "legacy_recid") # record.legacy_document_id
    THEN Raise("LoanMigrationError", "inconsistent document")
    ELSE [kind |-> "pass"]

document_cross_check(document, record) ==
    IF record.legacy_document_id = NoneVal
    THEN Raise("LoanMigrationError", "no document id")
    ELSE IF GetOrNone(document, "legacy_recid") # record.legacy_document_id
    THEN [kind |-> "warn"]
    ELSE [kind |-> "pass"]

import_loans_iteration(record, import_raises, commit_raises) ==
    LET user == get_user_by_legacy_id(record.id_crcBORROWER)
        patron_pid == IF user.kind = "ok" THEN user.rec.pid ELSE SystemAgentId
        item == get_item_by_barcode(record.item_barcode)
        document_pid == item.rec.document_pid
        document == docs[document_pid]
        check == document_cross_check(document, record)
        dict == loan_dict(record, patron_pid, document_pid, item.rec.pid)
        base == [user |-> user, item |-> NotCalled, warned |-> FALSE,
                 err |-> "", loans |-> loans, session |-> session]
        pending == import_record(session, dict)
    IN  IF user.kind = "raise"
        THEN [base EXCEPT !.err = user.err] @@ [end |-> "raised"]
        ELSE IF item.kind = "raise" /\ item.err = "ItemMigrationError"
        THEN [base EXCEPT !.item = item] @@ [end |-> "continue"]
        ELSE IF item.kind = "raise"
        THEN [base EXCEPT !.item = item, !.err = item.err]
             @@ [end |-> "raised"]
        ELSE IF document_pid \notin DOMAIN docs
        THEN [base EXCEPT !.item = item, !.err = "PIDDoesNotExistError"]
             @@ [end |-> "raised"]
        ELSE IF check.kind = "raise"
        THEN [base EXCEPT !.item = item, !.err = check.err]
             @@ [end |-> "raised"]
        ELSE LET seen == [base EXCEPT !.item = item,
                                      !.warned = (check.kind = "warn")]
             IN  IF ~Has(dict, "state")
                 THEN [seen EXCEPT !.err = IF Has(record, "state")
                                           THEN "LoanMigrationError"
                                           ELSE "KeyError"]
                      @@ [end |-> "raised"]
                 ELSE IF import_raises
                 THEN [seen EXCEPT !.err = "IlsValidationError"]
                      @@ [end |-> "raised"]
                 ELSE IF commit_raises
                 THEN [seen EXCEPT !.session = session_rollback(pending)]
                      @@ [end |-> "rolled back"]
                 ELSE [seen EXCEPT !.loans = session_commit(loans, pending),
                                   !.session = <<>>]
                      @@ [end |-> "committed"]

\* ---- bounds of the loan model ----
MaxLoans == 2

LoanFields ==
    [id_crcBORROWER : Keys3, item_barcode : Keys3,
     legacy_document_id : {NoneVal, 1, 2},
     status : {"on loan", "returned", "lost"},
     start_date : {1}, returned_on : {2}, end_date : {3}]
\* a record may carry a "state" next to its "status"
LoanRecords ==
    LoanFields \cup {Put(r, "state", "x") :
                        r \in {f \in LoanFields : f.status = "lost"}}

StartLoans ==
    /\ run.status # "running"
    /\ run' = [op |-> "loans", status |-> "running", err |-> ""]
    /\ last' = Nothing
    /\ UNCHANGED <<stores, indexes, nextPid, session>>

LoansStep(record, import_raises, commit_raises) ==
    /\ run.op = "loans" /\ run.status = "running"
    /\ Cardinality(DOMAIN loans) < MaxLoans
    /\ LET it == import_loans_iteration(record, import_raises, commit_raises)
       IN  /\ loans' = it.loans
           /\ session' = it.session
           /\ nextPid' = IF it.end = "committed" THEN nextPid + 1 ELSE nextPid
           /\ run' = IF it.end = "raised"
                     THEN [run EXCEPT !.status = "raised", !.err = it.err]
                     ELSE run
           /\ last' = [op |-> "loans", rec |-> record, user |-> it.user,
                       item |-> it.item, warned |-> it.warned, end |-> it.end,
                       created |-> DOMAIN it.loans \ DOMAIN loans]
    /\ UNCHANGED <<docs, series, locs, libraries, items, rels, indexes, accounts>>

EndLoans ==
    /\ run.op = "loans" /\ run.status = "running"
    /\ run' = [run EXCEPT !.status = "done"]
    /\ last' = Nothing
    /\ UNCHANGED <<stores, indexes, nextPid, session>>

\* the state after the documents, locations and items were imported and
\* indexed: barcode 1 names one Item, barcode 2 names two, barcode 3 none
InitLoans ==
    /\ docs = DocWorld(OneAndTwo) /\ idxDocs = docs
    /\ locs = LocWorld(OneAndTwo) /\ idxLocs = locs
    /\ libraries = <<>> /\ idxLibraries = <<>>
    /\ idxPatrons = PatronWorld(OneAndTwo)
    /\ series = <<>> /\ idxSeries = <<>>
    /\ items = ItemWorld(OneAndTwo) /\ idxItems = items
    /\ loans = <<>> /\ rels = {}
    /\ accounts = AccountWorld(idxPatrons) /\ session = <<>>
    /\ nextPid = 10
    /\ run = Idle /\ last = Nothing

NextLoans ==
    \/ StartLoans
    \/ \E record \in LoanRecords, i, m \in BOOLEAN : LoansStep(record, i, m)
    \/ EndLoans

SpecLoans == InitLoans /\ [][NextLoans]_vars

\* ---- import_users_from_json: one iteration of the loop over the dump ----
\* RemoteAccount.get: the account as the session sees it
RemoteAccountGet(user_id) ==
    IF user_id \in DOMAIN session THEN Return(session[user_id])
    ELSE IF user_id \in DOMAIN accounts THEN Return(accounts[user_id])
    ELSE ReturnNone

\* account.extra_data.update(legacy_id=record["id"], **extra_data): a
\* keyword given twice is a TypeError
extra_data_update(extra_data, legacy_id) ==
    IF Has(extra_data, "legacy_id")
    THEN Raise("TypeError", "multiple values for keyword legacy_id")
    ELSE Return(Put(extra_data, "legacy_id", legacy_id))

import_users_iteration(record) ==
    LET user == get_user_by_person_id(record.ccid)
        account == RemoteAccountGet(user.rec.pid)
        updated == extra_data_update(account.rec, record.id)
        base == [user |-> user, err |-> "", session |-> session,
                 idxPatrons |-> idxPatrons]
    IN  IF user.kind = "raise"
        THEN [base EXCEPT !.err = user.err] @@ [end |-> "raised"]
        ELSE IF user.kind = "none" THEN base @@ [end |-> "continue"]
        ELSE IF account.kind = "none"
        THEN [base EXCEPT !.err = "AttributeError"] @@ [end |-> "raised"]
        ELSE IF updated.kind = "raise"
        THEN [base EXCEPT !.err = updated.err] @@ [end |-> "raised"]
        ELSE [base EXCEPT
                 !.session = Put(session, user.rec.pid, updated.rec),
                 !.idxPatrons = [idxPatrons EXCEPT ![user.rec.pid] =
                                    Put(@, "legacy_id", record.id)]]
             @@ [end |-> "added"]

UserRecords == [id : 1 .. 2, ccid : 1 .. 4]

\* a run starts with an empty session: what an earlier run left pending
\* ended with its process
StartUsers ==
    /\ run.status # "running"
    /\ run' = [op |-> "users", status |-> "running", err |-> "",
               handled |-> {}]
    /\ session' = <<>>
    /\ last' = Nothing
    /\ UNCHANGED <<stores, indexes, nextPid>>

UsersStep(record) ==
    /\ run.op = "users" /\ run.status = "running"
    /\ LET it == import_users_iteration(record)
       IN  /\ session' = it.session
           /\ idxPatrons' = it.idxPatrons
           /\ run' = IF it.end = "raised"
                     THEN [run EXCEPT !.status = "raised", !.err = it.err]
                     ELSE IF it.end = "added"
                     THEN [run EXCEPT !.handled = @ \cup {it.user.rec.pid}]
                     ELSE run
           /\ last' = [op |-> "users", rec |-> record, user |-> it.user,
                       end |-> it.end]
    /\ UNCHANGED <<stores, idxDocs, idxSeries, idxLocs, idxLibraries, idxItems, nextPid>>

\* the dump is exhausted: db.session.commit() (line 342), the only one
EndUsers(commit_raises) ==
    /\ run.op = "users" /\ run.status = "running"
    /\ IF commit_raises
       THEN /\ run' = [run EXCEPT !.status = "raised",
                                  !.err = "SQLAlchemyError"]
            /\ UNCHANGED <<accounts, session>>
       ELSE /\ run' = [run EXCEPT !.status = "done"]
            /\ accounts' = session @@ accounts
            /\ session' = <<>>
    /\ last' = Nothing
    /\ UNCHANGED <<docs, series, locs, libraries, items, loans, rels, indexes, nextPid>>

\* the patrons synced before the legacy ids are known: person ids 1 and 2
\* name one patron each, person id 3 names two, person id 4 names none
PatronsSynced == <<1, 1, 2>>

InitUsers ==
    /\ docs = <<>> /\ idxDocs = <<>>
    /\ locs = <<>> /\ idxLocs = <<>>
    /\ libraries = <<>> /\ idxLibraries = <<>>
    /\ idxPatrons = [p \in DOMAIN PatronWorld(PatronsSynced) |->
                        Del(PatronWorld(PatronsSynced)[p], "legacy_id")]
    /\ series = <<>> /\ idxSeries = <<>>
    /\ items = <<>> /\ idxItems = <<>>
    /\ loans = <<>> /\ rels = {}
    /\ accounts = AccountWorld(idxPatrons) /\ session = <<>>
    /\ nextPid = 10
    /\ run = Idle /\ last = Nothing

NextUsers ==
    \/ StartUsers
    \/ \E record \in UserRecords : UsersStep(record)
    \/ \E commit_raises \in BOOLEAN : EndUsers(commit_raises)

SpecUsers == InitUsers /\ [][NextUsers]_vars

\* ---- create_multipart_volumes ----
\* "Combine all volume data by volume number": the merged fields of each
\* ordinal, or the duplicate-key KeyError
DuplicateKey(volume, obj) ==
    \E key \in DOMAIN obj \ {"volume"} : key \in DOMAIN volume

RECURSIVE combine_overwriting(_, _)
combine_overwriting(volumes, migration_volumes) ==
    IF migration_volumes = <<>> THEN Return(volumes)
    ELSE LET obj == Head(migration_volumes)
             volume == IF obj.volume \in DOMAIN volumes
                       THEN volumes[obj.volume] ELSE EmptyDict
         IN  combine_overwriting(
                 Put(volumes, obj.volume, Del(obj, "volume") @@ volume),
                 Tail(migration_volumes))

RECURSIVE combine_volumes(_, _)
combine_volumes(volumes, migration_volumes) ==
    IF migration_volumes = <<>> THEN Return(volumes)
    ELSE LET obj == Head(migration_volumes)
             volume == IF obj.volume \in DOMAIN volumes
                       THEN volumes[obj.volume] ELSE EmptyDict
         IN  IF DuplicateKey(volume, obj)
             THEN Raise("KeyError", "duplicate key")
             ELSE combine_volumes(
                      Put(volumes, obj.volume, Del(obj, "volume") @@ volume),
                      Tail(migration_volumes))

\* sorted(volumes.keys())
RECURSIVE sorted(_)
sorted(numbers) ==
    IF numbers = {} THEN <<>>
    ELSE LET m == CHOOSE x \in numbers : \A y \in numbers : x <= y
         IN  <<m>> \o sorted(numbers \ {m})

\* "Re-use the current record for the first volume"
first_volume_keeping_recid(first, volume, first_volume, recid) ==
    LET titled == IF Has(volume, "title")
                  THEN Put(Put(first, "title", volume.title),
                           "volume", first_volume)
                  ELSE first
    IN  IF ~Has(titled, "_migration") THEN Raise("KeyError", "_migration")
        ELSE Return([titled EXCEPT !["_migration"] =
                        Put(@, "multipart_legacy_recid", recid)])

first_volume_unguarded_del(first, volume, first_volume, recid) ==
    LET titled == IF Has(volume, "title")
                  THEN Put(Put(first, "title", volume.title),
                           "volume", first_volume)
                  ELSE first
    IN  IF ~Has(titled, "_migration") THEN Raise("KeyError", "_migration")
        ELSE IF ~Has(titled, "legacy_recid")
        THEN Raise("KeyError", "legacy_recid")
        ELSE Return(Del([titled EXCEPT !["_migration"] =
                            Put(@, "multipart_legacy_recid", recid)],
                        "legacy_recid"))

first_volume_document(first, volume, first_volume, recid) ==
    LET titled == IF Has(volume, "title")
                  THEN Put(Put(first, "title", volume.title),
                           "volume", first_volume)
                  ELSE first
    IN  IF ~Has(titled, "_migration") THEN Raise("KeyError", "_migration")
        ELSE LET stamped == [titled EXCEPT !["_migration"] =
                                Put(@, "multipart_legacy_recid", recid)]
             IN  Return(IF Has(stamped, "legacy_recid")
                        THEN Del(stamped, "legacy_recid") ELSE stamped)

\* "Create new records for the rest"
\* the clone carries a PID other than the one its record is stored under
next_volume_document_unstored(first, volume, number, pid) ==
    IF ~Has(volume, "title") THEN Raise("KeyError", "title")
    ELSE Return(Put(Put(Put(first, "title", volume.title), "volume", number),
                    "pid", pid + 1))

next_volume_document(first, volume, number, pid) ==
    IF ~Has(volume, "title") THEN Raise("KeyError", "title")
    ELSE Return(Put(Put(Put(first, "title", volume.title), "volume", number),
                    "pid", pid))

\* ---- create_parent_child_relation ----
create_parent_child_relation(parent, child, relation_type, volume) ==
    [parent |-> parent.pid, child |-> child.pid,
     relation_type |-> relation_type,
     volume |-> IF volume = NoneVal THEN NoneVal ELSE volume]

\* ---- who iterates over the generator: list(), or the linking loop ----
Listing == [link |-> FALSE]
Linking(multipart) == [link |-> TRUE, multipart |-> multipart]

\* the body of `for document in documents` (lines 671-683); st is the
\* store, the relations, the documents yielded so far and the error raised
link_document(consumer, document, st) ==
    IF ~consumer.link \/ consumer.multipart.kind # "ok" THEN st
    ELSE IF ~Has(document, "volume") THEN [st EXCEPT !.err = "KeyError: volume"]
    ELSE [st EXCEPT !.rels = @ \cup {create_parent_child_relation(
                                        consumer.multipart.rec, document,
                                        "multipart_monograph",
                                        document.volume)}]

RECURSIVE rest_volumes(_, _, _, _, _)
rest_volumes(numbers, first, volumes, consumer, st) ==
    IF numbers = <<>> \/ st.err # "" THEN st
    ELSE LET made == next_volume_document(first, volumes[Head(numbers)],
                                          Head(numbers), st.nextPid)
         IN  IF made.kind = "raise"
             THEN [st EXCEPT !.err = "KeyError: " \o made.why]
             ELSE rest_volumes(Tail(numbers), first, volumes, consumer,
                      link_document(consumer, made.rec,
                          [st EXCEPT !.docs = Put(@, st.nextPid, made.rec),
                                     !.nextPid = @ + 1,
                                     !.yielded = Append(@, made.rec)]))

create_multipart_volumes(pid, multipart_legacy_recid, migration_volumes, consumer) ==
    LET st == [docs |-> docs, nextPid |-> nextPid, rels |-> rels,
               yielded |-> <<>>, err |-> "", volumes |-> EmptyDict]
        combined == combine_volumes(EmptyDict, migration_volumes)
        volumes == combined.rec
        volume_numbers == sorted(DOMAIN volumes)
        made == first_volume_document(docs[pid], volumes[Head(volume_numbers)],
                                      Head(volume_numbers),
                                      multipart_legacy_recid)
    IN  IF combined.kind = "raise"
        THEN [st EXCEPT !.err = "KeyError: " \o combined.why]
        ELSE IF volume_numbers = <<>>
        THEN [st EXCEPT !.err = "StopIteration"]
        ELSE IF pid \notin DOMAIN docs
        THEN [st EXCEPT !.err = "PIDDoesNotExistError", !.volumes = volumes]
        ELSE IF made.kind = "raise"
        THEN [st EXCEPT !.err = "KeyError: " \o made.why, !.volumes = volumes]
        ELSE rest_volumes(Tail(volume_numbers), made.rec, volumes, consumer,
                 link_document(consumer, made.rec,
                     [st EXCEPT !.docs = Put(@, pid, made.rec),
                                !.yielded = <<made.rec>>,
                                !.volumes = volumes]))

\* ---- bounds of the volume model ----
MaxFrags == 3
MaxDocs == 5

Ordinals == 1 .. 3
\* a fragment carries its ordinal and a title (one title per ordinal) or a
\* field other than the title
TitleOf(n) == <<"A", "B", "C">>[n]
Fragments ==
    {[volume |-> n, title |-> TitleOf(n)] : n \in Ordinals}
        \cup {[volume |-> n, note |-> "n"] : n \in Ordinals}
FragmentSeqs == UNION {[1 .. len -> Fragments] : len \in 0 .. MaxFrags}

Changed(before, after) ==
    {p \in DOMAIN after : p \notin DOMAIN before \/ after[p] # before[p]}

\* create_multipart_volumes called on its own and run to its end
SplitVolumes(pid, recid) ==
    /\ run.status # "running"
    /\ Cardinality(DOMAIN docs) + Cardinality(Ordinals) - 1 <= MaxDocs
    /\ LET frags == docs[pid]._migration.volumes
           st == create_multipart_volumes(pid, recid, frags, Listing)
       IN  /\ docs' = st.docs
           /\ nextPid' = st.nextPid
           /\ last' = [op |-> "split", pid |-> pid, recid |-> recid,
                       frags |-> frags, before |-> docs[pid],
                       yielded |-> st.yielded, err |-> st.err,
                       volumes |-> st.volumes,
                       created |-> DOMAIN st.docs \ DOMAIN docs,
                       changed |-> Changed(docs, st.docs)]
    /\ UNCHANGED <<series, locs, libraries, items, loans, rels, indexes, run, accounts,
                   session>>

\* ---- link_and_create_multipart_volumes ----
\* `if "legacy_recid" not in hit: continue`, the first statement of the loop
\* body of both linking passes
skips_no_hit(hit) == FALSE

skips_hit(hit) == ~Has(hit, "legacy_recid")

\* search.scan(): the Documents indexed with _migration.is_multipart;
\* rerun records that the call follows a call that ran to its end and that
\* the index holds the Documents as they are stored
StartLinkMultipart ==
    /\ run.status # "running"
    /\ run' = [op |-> "link_multipart", status |-> "running", err |-> "",
               todo |-> {p \in DOMAIN idxDocs :
                            idxDocs[p]._migration.is_multipart},
               rerun |-> /\ run.op = "link_multipart"
                         /\ run.status = "done"
                         /\ idxDocs = docs]
    /\ last' = Nothing
    /\ UNCHANGED <<stores, indexes, nextPid, session>>

\* one iteration of `for hit in search.scan()`
LinkMultipartStep(p) ==
    /\ run.op = "link_multipart" /\ run.status = "running"
    /\ p \in run.todo
    /\ Cardinality(DOMAIN docs) + Cardinality(Ordinals) - 1 <= MaxDocs
    /\ LET hit == idxDocs[p]
           legacy_recid == GetOrNone(hit, "legacy_recid")
           multipart == get_multipart_by_legacy_recid(legacy_recid)
           st == create_multipart_volumes(hit.pid, legacy_recid,
                                          hit._migration.volumes,
                                          Linking(multipart))
           done == [run EXCEPT !.todo = @ \ {p}]
           seen == [op |-> "link", hit |-> hit, pid |-> hit.pid,
                    recid |-> legacy_recid,
                    frags |-> hit._migration.volumes, before |-> docs[p],
                    end |-> "", multipart |-> NotCalled, yielded |-> <<>>,
                    err |-> "", volumes |-> EmptyDict, created |-> {},
                    changed |-> {}, edges |-> {}]
       IN  IF skips_hit(hit)
           THEN /\ run' = done
                /\ last' = [seen EXCEPT !.end = "skipped"]
                /\ UNCHANGED <<docs, rels, nextPid, accounts, session>>
           ELSE IF multipart.kind = "raise"
           THEN /\ run' = [run EXCEPT !.status = "raised",
                                      !.err = multipart.err]
                /\ last' = [seen EXCEPT !.end = "raised",
                                        !.multipart = multipart]
                /\ UNCHANGED <<docs, rels, nextPid, accounts, session>>
           ELSE /\ docs' = st.docs
                /\ rels' = st.rels
                /\ nextPid' = st.nextPid
                /\ run' = IF st.err = "" THEN done
                          ELSE [run EXCEPT !.status = "raised",
                                           !.err = st.err]
                /\ last' = [seen EXCEPT
                                !.end = IF st.err = "" THEN "linked"
                                        ELSE "raised",
                                !.multipart = multipart,
                                !.yielded = st.yielded, !.err = st.err,
                                !.volumes = st.volumes,
                                !.created = DOMAIN st.docs \ DOMAIN docs,
                                !.changed = Changed(docs, st.docs),
                                !.edges = st.rels \ rels]
    /\ UNCHANGED <<series, locs, libraries, items, loans, indexes, accounts, session>>

EndLinkMultipart ==
    /\ run.op = "link_multipart" /\ run.status = "running"
    /\ run.todo = {}
    /\ run' = [run EXCEPT !.status = "done"]
    /\ last' = Nothing
    /\ UNCHANGED <<stores, indexes, nextPid, session>>

\* reindex_pidtype for the Document pid type, between two runs
ReindexDocuments ==
    /\ run.status # "running"
    /\ idxDocs # docs
    /\ idxDocs' = docs
    /\ last' = Nothing
    /\ UNCHANGED <<stores, idxSeries, idxLocs, idxLibraries, idxItems, idxPatrons, nextPid,
                   run, session>>

\* the state after the parents and the documents were imported and indexed:
\* one Document flagged is_multipart under legacy recid 1 with its volume
\* fragments, and the multipart Series found under that recid
MultipartDocument(pid, recid, frags) ==
    [pid |-> pid, legacy_recid |-> recid, title |-> "T",
     _migration |-> [is_multipart |-> TRUE, has_serial |-> FALSE,
                     volumes |-> frags]]

\* the Documents the dump flags is_multipart: their PID and legacy recid
Parents == {[pid |-> 1, legacy_recid |-> 1]}

InitVolumes ==
    \E frags \in FragmentSeqs, n \in 0 .. MaxDup :
        /\ docs = (1 :> MultipartDocument(1, 1, frags)) /\ idxDocs = docs
        /\ series = SeriesWorld([k \in 1 .. 1 |-> n]) /\ idxSeries = series
        /\ locs = <<>> /\ idxLocs = <<>>
        /\ libraries = <<>> /\ idxLibraries = <<>>
        /\ items = <<>> /\ idxItems = <<>> /\ idxPatrons = <<>>
        /\ loans = <<>> /\ rels = {}
        /\ accounts = AccountWorld(idxPatrons) /\ session = <<>>
        /\ nextPid = 10
        /\ run = Idle /\ last = Nothing

NextVolumes ==
    \/ \E parent \in Parents : SplitVolumes(parent.pid, parent.legacy_recid)
    \/ StartLinkMultipart
    \/ \E p \in DOMAIN idxDocs : LinkMultipartStep(p)
    \/ EndLinkMultipart
    \/ ReindexDocuments

SpecVolumes == InitVolumes /\ [][NextVolumes]_vars

\* ---- the `include` argument of the file orchestrators ----
\* None, the string "k1,k2" or (after a split) the list of its keys
IncludeNone == [type |-> "None"]
IncludeStr(keys) == [type |-> "str", keys |-> keys]
IncludeList(keys) == [type |-> "list", keys |-> keys]

\* include.split(","): a method of str, not of list
split(include) ==
    IF include.type = "str" THEN Return(IncludeList(include.keys))
    ELSE Raise("AttributeError", "no attribute split")

\* None if include is None else include.split(",")
split_unless_none(include) ==
    IF include.type = "None" THEN Return(IncludeNone) ELSE split(include)

\* include_keys is None or key in include_keys
key_included(include_keys, key) ==
    include_keys.type = "None" \/ key \in include_keys.keys

\* bulk_index_records: the index takes the stored state of the records
bulk_index_records(idx, store, records) ==
    [p \in DOMAIN idx \cup records |->
        IF p \in records THEN store[p] ELSE idx[p]]

\* ---- bounds of the dump files ----
MaxEntries == 2
MaxSources == 2

\* a dump file: the entries of a JSON object in file order, under the keys
\* "a", "b", ...
DumpKeys == <<"a", "b", "c", "d">>
DumpsOf(parents, n) ==
    UNION {{[i \in 1 .. len |-> [key |-> DumpKeys[i], parent |-> f[i]]] :
               f \in [1 .. len -> parents]} : len \in 0 .. n}
IncludeArgs ==
    {IncludeNone} \cup {IncludeStr(S) : S \in {{"a"}, {"b"}, {"a", "b"}}}

\* ---- import_parents_from_file ----
\* parent.get("_migration", {}).get(field, [])
migration_list(parent, field) ==
    IF Has(parent, "_migration") /\ Has(parent._migration, field)
    THEN parent._migration[field] ELSE <<>>

\* a parent imported for its rectype alone
parent_of_rectype(rectype, parent) == rectype \in {"serial", "multipart"}

\* lines 130-137: a serial with children, a multipart with volumes
parent_is_imported(rectype, parent) ==
    \/ rectype = "serial" /\ migration_list(parent, "children") # <<>>
    \/ rectype = "multipart" /\ migration_list(parent, "volumes") # <<>>

StartParents(dump, rectype, include) ==
    /\ run.status # "running"
    /\ LET include_keys == split_unless_none(include)
       IN  run' = [op |-> "parents", rectype |-> rectype,
                   status |-> IF include_keys.kind = "raise"
                              THEN "raised" ELSE "running",
                   err |-> IF include_keys.kind = "raise"
                           THEN include_keys.err ELSE "",
                   include |-> include,
                   todo |-> dump, records |-> {}]
    /\ last' = Nothing
    /\ UNCHANGED <<stores, indexes, nextPid, session>>

\* one iteration of `for key, parent in bar`
ParentsStep(import_raises) ==
    /\ run.op = "parents" /\ run.status = "running" /\ run.todo # <<>>
    /\ LET key == Head(run.todo).key
           parent == Head(run.todo).parent
           seen == [op |-> "parents", key |-> key, parent |-> parent,
                    rectype |-> run.rectype, include |-> run.include,
                    end |-> "", created |-> {}]
       IN  IF ~Has(parent, "legacy_recid") /\ ~Has(parent, "title")
           THEN /\ run' = [run EXCEPT !.status = "raised", !.err = "KeyError"]
                /\ last' = [seen EXCEPT !.end = "raised"]
                /\ UNCHANGED <<series, nextPid>>
           ELSE IF ~key_included(split_unless_none(run.include).rec, key)
           THEN /\ run' = [run EXCEPT !.todo = Tail(@)]
                /\ last' = [seen EXCEPT !.end = "filtered"]
                /\ UNCHANGED <<series, nextPid>>
           ELSE IF ~parent_is_imported(run.rectype, parent)
           THEN /\ run' = [run EXCEPT !.todo = Tail(@)]
                /\ last' = [seen EXCEPT !.end = "skipped"]
                /\ UNCHANGED <<series, nextPid>>
           ELSE IF import_raises
           THEN /\ run' = [run EXCEPT !.status = "raised",
                                      !.err = "IlsValidationError"]
                /\ last' = [seen EXCEPT !.end = "raised"]
                /\ UNCHANGED <<series, nextPid>>
           ELSE /\ series' = import_record(series, parent)
                /\ nextPid' = nextPid + 1
                /\ run' = [run EXCEPT !.todo = Tail(@),
                                      !.records = @ \cup {nextPid}]
                /\ last' = [seen EXCEPT !.end = "imported",
                                        !.created = {nextPid}]
    /\ UNCHANGED <<docs, locs, libraries, items, loans, rels, accounts, indexes,
                   session>>

\* the loop is over: bulk_index_records(records)
EndParents ==
    /\ run.op = "parents" /\ run.status = "running" /\ run.todo = <<>>
    /\ idxSeries' = bulk_index_records(idxSeries, series, run.records)
    /\ run' = [run EXCEPT !.status = "done"]
    /\ last' = [op |-> "parents indexed", records |-> run.records]
    /\ UNCHANGED <<stores, idxDocs, idxLocs, idxLibraries, idxItems, idxPatrons, nextPid,
                   session>>

\* the parents of a dump: serials with and without children, multiparts
\* with and without volumes, and entries without migration metadata
SerialParent(recid, title, children) ==
    [legacy_recid |-> recid, title |-> title, mode_of_issuance |-> "SERIAL",
     _migration |-> [children |-> children]]
MultipartParent(recid, volumes, serials) ==
    [legacy_recid |-> recid, title |-> "M",
     mode_of_issuance |-> "MULTIPART_MONOGRAPH",
     _migration |-> [volumes |-> volumes, has_serial |-> serials # <<>>,
                     serials |-> serials]]
ParentEntries ==
    {SerialParent(11, "X", <<1>>), SerialParent(12, "Y", <<>>),
     MultipartParent(21, <<[volume |-> 1, title |-> "A"]>>, <<>>),
     MultipartParent(22, <<>>, <<>>),
     [legacy_recid |-> 13, title |-> "X", mode_of_issuance |-> "SERIAL"],
     [legacy_recid |-> 14, title |-> "X", mode_of_issuance |-> "SERIAL",
      _migration |-> [children |-> <<1>>,
                      volumes |-> <<[volume |-> 1, title |-> "A"]>>]]}

Pristine ==
    /\ docs = <<>> /\ idxDocs = <<>>
    /\ locs = <<>> /\ idxLocs = <<>>
    /\ libraries = <<>> /\ idxLibraries = <<>>
    /\ idxPatrons = <<>>
    /\ series = <<>> /\ idxSeries = <<>>
    /\ items = <<>> /\ idxItems = <<>>
    /\ loans = <<>> /\ rels = {}
    /\ accounts = AccountWorld(idxPatrons) /\ session = <<>>
    /\ nextPid = 10
    /\ run = Idle /\ last = Nothing

InitParents == Pristine

NextParents ==
    \/ \E dump \in DumpsOf(ParentEntries, MaxEntries),
          rectype \in {"serial", "multipart"}, include \in IncludeArgs :
           run = Idle /\ StartParents(dump, rectype, include)
    \/ \E import_raises \in BOOLEAN : ParentsStep(import_raises)
    \/ EndParents

SpecParents == InitParents /\ [][NextParents]_vars

\* ---- import_documents_from_record_file ----
\* line 152, then the source files one after the other
StartDocuments(sources, include) ==
    /\ run.status # "running"
    /\ run' = [op |-> "documents", status |-> "running", err |-> "",
               given |-> include, include |-> split_unless_none(include).rec,
               include_keys |-> IncludeNone,
               sources |-> sources, todo |-> <<>>, records |-> {}]
    /\ last' = Nothing
    /\ UNCHANGED <<stores, indexes, nextPid, session>>

\* the next source is opened: lines 160-163
NextSource ==
    /\ run.op = "documents" /\ run.status = "running"
    /\ run.todo = <<>> /\ run.sources # <<>>
    /\ LET include_keys == split_unless_none(run.include)
       IN  run' = IF include_keys.kind = "raise"
                  THEN [run EXCEPT !.status = "raised",
                                   !.err = include_keys.err]
                  ELSE [run EXCEPT !.include_keys = include_keys.rec,
                                   !.todo = Head(run.sources),
                                   !.sources = Tail(@),
                                   !.records = {}]
    /\ last' = [op |-> "source"]
    /\ UNCHANGED <<stores, indexes, nextPid, session>>

\* one iteration of `for key, parent in bar`
DocumentsStep(import_raises) ==
    /\ run.op = "documents" /\ run.status = "running" /\ run.todo # <<>>
    /\ LET key == Head(run.todo).key
           parent == Head(run.todo).parent
           seen == [op |-> "documents", key |-> key, parent |-> parent,
                    given |-> run.given, end |-> "", created |-> {}]
       IN  IF ~Has(parent, "legacy_recid")
           THEN /\ run' = [run EXCEPT !.status = "raised", !.err = "KeyError"]
                /\ last' = [seen EXCEPT !.end = "raised"]
                /\ UNCHANGED <<docs, nextPid>>
           ELSE IF ~key_included(run.include_keys, key)
           THEN /\ run' = [run EXCEPT !.todo = Tail(@)]
                /\ last' = [seen EXCEPT !.end = "filtered"]
                /\ UNCHANGED <<docs, nextPid>>
           ELSE IF import_raises
           THEN /\ run' = [run EXCEPT !.status = "raised",
                                      !.err = "IlsValidationError"]
                /\ last' = [seen EXCEPT !.end = "raised"]
                /\ UNCHANGED <<docs, nextPid>>
           ELSE /\ docs' = import_record(docs, parent)
                /\ nextPid' = nextPid + 1
                /\ run' = [run EXCEPT !.todo = Tail(@),
                                      !.records = @ \cup {nextPid}]
                /\ last' = [seen EXCEPT !.end = "imported",
                                        !.created = {nextPid}]
    /\ UNCHANGED <<series, locs, libraries, items, loans, rels, accounts, indexes,
                   session>>

\* the last source is read: bulk_index_records(records)
EndDocuments ==
    /\ run.op = "documents" /\ run.status = "running"
    /\ run.todo = <<>> /\ run.sources = <<>>
    /\ idxDocs' = bulk_index_records(idxDocs, docs, run.records)
    /\ run' = [run EXCEPT !.status = "done"]
    /\ last' = [op |-> "documents indexed", records |-> run.records]
    /\ UNCHANGED <<stores, idxSeries, idxLocs, idxLibraries, idxItems, idxPatrons, nextPid,
                   session>>

\* the documents of a dump: under legacy recid 1 or 2, flagged has_serial
\* with the serial titles and volumes they list, or not flagged
SerialDocument(recid, serials) ==
    [legacy_recid |-> recid, title |-> "T",
     _migration |-> [is_multipart |-> FALSE, has_serial |-> serials # <<>>,
                     serials |-> serials]]
DocumentEntries ==
    {SerialDocument(1, <<[title |-> "X", volume |-> 1]>>),
     SerialDocument(2, <<[title |-> "X", volume |-> 2],
                         [title |-> "X", volume |-> 3]>>),
     SerialDocument(1, <<[title |-> "Y", volume |-> 1], [title |-> "X"]>>),
     SerialDocument(2, <<>>)}

RECURSIVE TotalLen(_)
TotalLen(sources) ==
    IF sources = <<>> THEN 0 ELSE Len(Head(sources)) + TotalLen(Tail(sources))
\* at most MaxSources files holding at most MaxEntries entries in all
SourceLists ==
    {sources \in UNION {[1 .. n -> DumpsOf(DocumentEntries, MaxEntries)] :
                            n \in 0 .. MaxSources} :
        TotalLen(sources) <= MaxEntries}

InitDocuments == Pristine

NextDocuments ==
    \/ \E sources \in SourceLists, include \in IncludeArgs :
           run = Idle /\ StartDocuments(sources, include)
    \/ NextSource
    \/ \E import_raises \in BOOLEAN : DocumentsStep(import_raises)
    \/ EndDocuments

SpecDocuments == InitDocuments /\ [][NextDocuments]_vars

\* ---- import_internal_locations_from_json ----
\* the legacy_id of a dump entry is a JSON number n or the JSON string of
\* the digits of n; the ids of the include list are such strings, each
\* written as its n
JsonNumber(n) == [json |-> "number", value |-> n]
JsonString(n) == [json |-> "string", value |-> n]

\* str(record["legacy_id"])
str(value) == [json |-> "string", value |-> value.value]

\* include_ids is None or record["legacy_id"] in include_ids: the ids of
\* the list are strings, and a number equals none of them
legacy_id_included(include_ids, legacy_id) ==
    \/ include_ids.type = "None"
    \/ legacy_id.json = "string" /\ legacy_id.value \in include_ids.keys

\* record.pop("type", None): the record it leaves
pop_keeping(record, key) == record

pop(record, key) == IF Has(record, key) THEN Del(record, key) ELSE record

\* the entries of the dump: with type "external", with another type or
\* with none, under a numeric or a string legacy_id; an entry may carry a
\* location_pid of its own, and one entry has no legacy_id
LocationEntries ==
    LET ids == {JsonNumber(1), JsonNumber(2), JsonString(1)}
    IN  {[legacy_id |-> id, name |-> "n"] : id \in ids}
        \cup {[legacy_id |-> id, name |-> "n", type |-> t] :
                  id \in ids, t \in {"external", "main"}}
        \cup {[legacy_id |-> JsonNumber(3), name |-> "n",
               location_pid |-> "legacy_location"],
              [name |-> "n", type |-> "external"]}
LocationDumps ==
    UNION {[1 .. len -> LocationEntries] : len \in 0 .. MaxEntries}
LocationIncludes == {IncludeNone, IncludeStr({1}), IncludeStr({1, 2})}

StartLocations(dump, include) ==
    /\ run.status # "running"
    /\ run' = [op |-> "locations", status |-> "running", err |-> "",
               include_ids |-> split_unless_none(include).rec,
               dump |-> dump, todo |-> dump, records |-> {}]
    /\ last' = Nothing
    /\ UNCHANGED <<stores, indexes, nextPid, session>>

\* one iteration of `for record in bar`
LocationsStep(import_raises) ==
    /\ run.op = "locations" /\ run.status = "running" /\ run.todo # <<>>
    /\ LET record == Head(run.todo)
           external == Has(record, "type") /\ record.type = "external"
           popped == pop(record, "type")
           stringed == Put(popped, "legacy_id", str(popped.legacy_id))
           located == Put(stringed, "location_pid",
                          default_location_pid_value)
           seen == [op |-> "locations", record |-> record, end |-> "",
                    libraries |-> {}, locations |-> {}]
           done == [run EXCEPT !.todo = Tail(@),
                               !.records = @ \cup {nextPid}]
           failed == [run EXCEPT !.status = "raised",
                                 !.err = IF import_raises
                                         THEN "IlsValidationError"
                                         ELSE "KeyError"]
       IN  IF ~Has(record, "legacy_id")
           THEN /\ run' = failed
                /\ last' = [seen EXCEPT !.end = "raised"]
                /\ UNCHANGED <<locs, libraries, nextPid>>
           ELSE IF ~legacy_id_included(run.include_ids, record.legacy_id)
           THEN /\ run' = [run EXCEPT !.todo = Tail(@)]
                /\ last' = [seen EXCEPT !.end = "filtered"]
                /\ UNCHANGED <<locs, libraries, nextPid>>
           ELSE IF import_raises
           THEN /\ run' = failed
                /\ last' = [seen EXCEPT !.end = "raised"]
                /\ UNCHANGED <<locs, libraries, nextPid>>
           ELSE IF external
           THEN /\ libraries' = import_record(libraries, stringed)
                /\ nextPid' = nextPid + 1
                /\ run' = done
                /\ last' = [seen EXCEPT !.end = "imported",
                                        !.libraries = {nextPid}]
                /\ UNCHANGED locs
           ELSE /\ locs' = import_record(locs, located)
                /\ nextPid' = nextPid + 1
                /\ run' = done
                /\ last' = [seen EXCEPT !.end = "imported",
                                        !.locations = {nextPid}]
                /\ UNCHANGED libraries
    /\ UNCHANGED <<docs, series, items, loans, rels, accounts, indexes,
                   session>>

\* the dump is read: bulk_index_records(records), "all new internal
\* location and libraries records"
EndLocations ==
    /\ run.op = "locations" /\ run.status = "running" /\ run.todo = <<>>
    /\ idxLocs' = bulk_index_records(idxLocs, locs,
                                     run.records \cap DOMAIN locs)
    /\ idxLibraries' = bulk_index_records(idxLibraries, libraries,
                                          run.records \cap DOMAIN libraries)
    /\ run' = [run EXCEPT !.status = "done"]
    /\ last' = [op |-> "locations indexed", records |-> run.records]
    /\ UNCHANGED <<stores, idxDocs, idxSeries, idxItems, idxPatrons, nextPid,
                   session>>

InitLocations == Pristine

NextLocations ==
    \/ \E dump \in LocationDumps, include \in LocationIncludes :
           run = Idle /\ StartLocations(dump, include)
    \/ \E import_raises \in BOOLEAN : LocationsStep(import_raises)
    \/ EndLocations

SpecLocations == InitLocations /\ [][NextLocations]_vars

\* ---- get_serials_by_child_recid: the hits of the scan ----
\* a serial found under the first recid of its children only
get_serials_by_first_child(recid) ==
    {p \in DOMAIN idxSeries :
        /\ idxSeries[p].mode_of_issuance = "SERIAL"
        /\ migration_list(idxSeries[p], "children") # <<>>
        /\ migration_list(idxSeries[p], "children")[1] = recid}

get_serials_by_child_recid(recid) ==
    {p \in DOMAIN idxSeries :
        /\ idxSeries[p].mode_of_issuance = "SERIAL"
        /\ \E i \in DOMAIN migration_list(idxSeries[p], "children") :
               migration_list(idxSeries[p], "children")[i] = recid}

\* ---- get_migrated_volume_by_serial_title ----
RECURSIVE volume_by_title(_, _)
volume_by_title(serials, title) ==
    IF serials = <<>>
    THEN Raise("DocumentMigrationError", "unable to find volume number")
    ELSE IF Head(serials).title = title
    THEN Return(GetOrNone(Head(serials), "volume"))
    ELSE volume_by_title(Tail(serials), title)

\* the volume of the first entry, whatever its title
get_migrated_volume_of_first_serial(record, title) ==
    IF ~Has(record, "_migration") \/ ~Has(record._migration, "serials")
    THEN Raise("KeyError", "serials")
    ELSE IF record._migration.serials = <<>>
    THEN Raise("DocumentMigrationError", "unable to find volume number")
    ELSE Return(GetOrNone(Head(record._migration.serials), "volume"))

get_migrated_volume_by_serial_title(record, title) ==
    IF ~Has(record, "_migration") \/ ~Has(record._migration, "serials")
    THEN Raise("KeyError", "serials")
    ELSE volume_by_title(record._migration.serials, title)

\* ---- link_documents_and_serials ----
\* `for serial in get_serials_by_child_recid(...)`, the hits in scan order
RECURSIVE link_serials(_, _, _)
link_serials(record, order, st) ==
    IF order = <<>> THEN st
    ELSE LET serial == series[Head(order)]
             volume == get_migrated_volume_by_serial_title(record,
                                                           serial.title)
         IN  IF ~Has(serial, "title") THEN [st EXCEPT !.err = "KeyError"]
             ELSE IF volume.kind = "raise" THEN [st EXCEPT !.err = volume.err]
             ELSE link_serials(record, Tail(order),
                      [st EXCEPT !.rels = @ \cup
                          {create_parent_child_relation(serial, record,
                                                        "serial", volume.rec)}])

\* the orders in which a scan may return its hits
Perms(S) ==
    {f \in [1 .. Cardinality(S) -> S] :
        \A i, j \in 1 .. Cardinality(S) : f[i] = f[j] => i = j}

flagged_has_serial(rec) ==
    Has(rec, "_migration") /\ Has(rec._migration, "has_serial")
        /\ rec._migration.has_serial

\* the first call of link_records_and_serial: the Documents flagged
\* has_serial in the index
StartLinkSerials ==
    /\ run.status # "running"
    /\ run' = [op |-> "link_serials", status |-> "running", err |-> "",
               cls |-> "Document",
               todo |-> {p \in DOMAIN idxDocs : flagged_has_serial(idxDocs[p])}]
    /\ last' = Nothing
    /\ UNCHANGED <<stores, indexes, nextPid, session>>

\* one iteration of `for hit in search.scan()`
LinkSerialsStep(p, order) ==
    /\ run.op = "link_serials" /\ run.status = "running"
    /\ p \in run.todo
    /\ LET hit == IF run.cls = "Document" THEN idxDocs[p] ELSE idxSeries[p]
           record == IF run.cls = "Document" THEN docs[p] ELSE series[p]
           st == link_serials(record, order, [rels |-> rels, err |-> ""])
           seen == [op |-> "link_serials", cls |-> run.cls, pid |-> p,
                    hit |-> hit, order |-> <<>>, edges |-> {}, err |-> "",
                    end |-> "skipped"]
       IN  IF skips_hit(hit)
           THEN /\ order = <<>>
                /\ run' = [run EXCEPT !.todo = @ \ {p}]
                /\ last' = seen
                /\ UNCHANGED rels
           ELSE /\ order \in Perms(get_serials_by_child_recid(
                                     GetOrNone(hit, "legacy_recid")))
                /\ rels' = st.rels
                /\ run' = IF st.err = "" THEN [run EXCEPT !.todo = @ \ {p}]
                          ELSE [run EXCEPT !.status = "raised",
                                           !.err = st.err]
                /\ last' = [seen EXCEPT !.order = order,
                                        !.edges = st.rels \ rels,
                                        !.err = st.err,
                                        !.end = IF st.err = "" THEN "linked"
                                                ELSE "raised"]
    /\ UNCHANGED <<docs, series, locs, libraries, items, loans, accounts, indexes,
                   nextPid, session>>

\* the hits still to come, and the orders in which the serials of a hit
\* may be scanned
Scanned == IF run.op = "link_serials" THEN run.todo ELSE {}
ScanOrders(p) ==
    LET hit == IF run.cls = "Document" THEN idxDocs[p] ELSE idxSeries[p]
    IN  IF skips_hit(hit) THEN {<<>>}
        ELSE Perms(get_serials_by_child_recid(GetOrNone(hit, "legacy_recid")))

\* the second call: the multipart Series flagged has_serial in the index
LinkSerialsOfMultiparts ==
    /\ run.op = "link_serials" /\ run.status = "running"
    /\ run.cls = "Document" /\ run.todo = {}
    /\ run' = [run EXCEPT
                  !.cls = "Series",
                  !.todo = {p \in DOMAIN idxSeries :
                               /\ idxSeries[p].mode_of_issuance
                                      = "MULTIPART_MONOGRAPH"
                               /\ flagged_has_serial(idxSeries[p])}]
    /\ last' = Nothing
    /\ UNCHANGED <<stores, indexes, nextPid, session>>

EndLinkSerials ==
    /\ run.op = "link_serials" /\ run.status = "running"
    /\ run.cls = "Series" /\ run.todo = {}
    /\ run' = [run EXCEPT !.status = "done"]
    /\ last' = Nothing
    /\ UNCHANGED <<stores, indexes, nextPid, session>>

\* ---- the validators ----
\* Document.get_record_by_pid(relation["pid"], pid_type=relation["pid_type"])
get_record_by_pid(pid) ==
    IF pid \in DOMAIN docs THEN Return(docs[pid])
    ELSE IF pid \in DOMAIN series THEN Return(series[pid])
    ELSE Raise("PIDDoesNotExistError", "no such pid")

\* record.relations.get().get(relation_type, [])
relations_of(record, relation_type) ==
    {e \in rels : e.parent = record.pid /\ e.relation_type = relation_type}

Elements(seq) == {seq[i] : i \in DOMAIN seq}

\* a validator that refuses a wrong number of children
validate_serial_relation_strict(serial, recids) ==
    LET relations == relations_of(serial, "serial")
    IN  [findings |-> {},
         err |-> IF Len(recids) # Cardinality(relations)
                 THEN "ValidationError" ELSE ""]

\* what validate_serial_relation prints, and the error it ends with
validate_serial_relation(serial, recids) ==
    LET relations == relations_of(serial, "serial")
        count == IF Len(recids) # Cardinality(relations)
                 THEN {[kind |-> "incorrect number of children",
                        pid |-> serial.pid,
                        found |-> Cardinality(relations),
                        expected |-> Len(recids)]}
                 ELSE {}
        unexpected ==
            {[kind |-> "unexpected child", pid |-> serial.pid,
              legacy_recid |-> get_record_by_pid(e.child).rec.legacy_recid] :
                e \in {r \in relations :
                          /\ get_record_by_pid(r.child).kind = "ok"
                          /\ Has(get_record_by_pid(r.child).rec,
                                 "legacy_recid")
                          /\ get_record_by_pid(r.child).rec.legacy_recid
                                 \notin Elements(recids)}}
    IN  [findings |-> count \cup unexpected,
         err |-> IF \E r \in relations :
                        get_record_by_pid(r.child).kind = "raise"
                 THEN "PIDDoesNotExistError" ELSE ""]

validate_serial_records ==
    LET hits == {p \in DOMAIN idxSeries :
                    idxSeries[p].mode_of_issuance = "SERIAL"}
        titled == {p \in hits : Has(idxSeries[p], "title")}
        duplicates ==
            {[kind |-> "title already exists", title |-> idxSeries[p].title] :
                p \in {q \in titled : \E o \in titled \ {q} :
                           idxSeries[o].title = idxSeries[q].title}}
        without == {p \in hits : ~Has(idxSeries[p], "_migration")
                                     \/ ~Has(idxSeries[p]._migration,
                                             "children")}
        checked(p) == validate_serial_relation(series[p],
                          idxSeries[p]._migration.children)
    IN  IF without # {}
        THEN [findings |-> duplicates, err |-> "AttributeError"]
        ELSE [findings |-> duplicates
                  \cup UNION {checked(p).findings : p \in hits},
              err |-> IF \E p \in hits : checked(p).err # ""
                      THEN (CHOOSE e \in {checked(p).err : p \in hits} :
                                e # "")
                      ELSE ""]

validate_multipart_relation(multipart, volumes) ==
    LET relations == relations_of(multipart, "multipart_monograph")
        titles == {volumes[i].title :
                      i \in {j \in DOMAIN volumes : Has(volumes[j], "title")}}
        count == Cardinality({volumes[i].volume : i \in DOMAIN volumes})
        children == {get_record_by_pid(r.child) : r \in relations}
    IN  IF \E i \in DOMAIN volumes : ~Has(volumes[i], "volume")
        THEN [findings |-> {}, err |-> "KeyError"]
        ELSE IF \E c \in children : c.kind = "raise"
        THEN [findings |-> {}, err |-> "PIDDoesNotExistError"]
        ELSE IF \E c \in children : ~Has(c.rec, "title")
        THEN [findings |-> {}, err |-> "KeyError"]
        ELSE [findings |->
                  (IF count # Cardinality(relations)
                   THEN {[kind |-> "incorrect number of volumes",
                          pid |-> multipart.pid,
                          found |-> Cardinality(relations),
                          expected |-> count]}
                   ELSE {})
                  \cup {[kind |-> "title does not exist",
                         pid |-> multipart.pid, title |-> c.rec.title] :
                            c \in {k \in children : k.rec.title \notin titles}},
              err |-> ""]

validate_multipart_records ==
    LET hits == {p \in DOMAIN idxSeries :
                    idxSeries[p].mode_of_issuance = "MULTIPART_MONOGRAPH"}
        with == {p \in hits : Has(idxSeries[p], "_migration")
                                 /\ Has(idxSeries[p]._migration, "volumes")}
        checked(p) == validate_multipart_relation(series[p],
                          idxSeries[p]._migration.volumes)
    IN  IF \E p \in hits : ~Has(idxSeries[p], "_migration")
        THEN [findings |-> {}, err |-> "AttributeError"]
        ELSE [findings |-> UNION {checked(p).findings : p \in with},
              err |-> IF \E p \in with : checked(p).err # ""
                      THEN (CHOOSE e \in {checked(p).err : p \in with} :
                                e # "")
                      ELSE ""]

Validated(name, result) ==
    /\ run.status # "running"
    /\ run' = [op |-> name, err |-> result.err,
               status |-> IF result.err = "" THEN "done" ELSE "raised"]
    /\ last' = [op |-> name, findings |-> result.findings,
                err |-> result.err]
    /\ UNCHANGED <<stores, indexes, nextPid, session>>

ValidateSerialRecords == Validated("validate_serial", validate_serial_records)
ValidateMultipartRecords ==
    Validated("validate_multipart", validate_multipart_records)

\* ---- the serial migration: the serial parents, the multipart parents
\* and the documents are imported, then linked, then validated ----
SerialEntries ==
    {SerialParent(12, "X", <<1, 2>>), SerialParent(13, "Y", <<2>>),
     [legacy_recid |-> 14, mode_of_issuance |-> "SERIAL",
      _migration |-> [children |-> <<2>>]]}
MultipartEntries ==
    {MultipartParent(2, <<[volume |-> 1, title |-> "A"]>>,
                     <<[title |-> "X", volume |-> 3]>>)}

InitSerials == Pristine

Finished(op) == run.op = op /\ run.status = "done"

NextSerials ==
    \/ \E dump \in DumpsOf(SerialEntries, MaxEntries) :
           run = Idle /\ StartParents(dump, "serial", IncludeNone)
    \/ \E dump \in DumpsOf(MultipartEntries, 1) :
           /\ Finished("parents") /\ run.rectype = "serial"
           /\ StartParents(dump, "multipart", IncludeNone)
    \/ \E import_raises \in BOOLEAN : ParentsStep(import_raises)
    \/ EndParents
    \/ \E dump \in DumpsOf(DocumentEntries, MaxEntries) :
           /\ Finished("parents") /\ run.rectype = "multipart"
           /\ StartDocuments(<<dump>>, IncludeNone)
    \/ NextSource
    \/ \E import_raises \in BOOLEAN : DocumentsStep(import_raises)
    \/ EndDocuments
    \/ Finished("documents") /\ StartLinkSerials
    \/ \E p \in Scanned : \E order \in ScanOrders(p) :
           LinkSerialsStep(p, order)
    \/ LinkSerialsOfMultiparts
    \/ EndLinkSerials
    \/ Finished("link_serials") /\ ValidateSerialRecords

SpecSerials == InitSerials /\ [][NextSerials]_vars

\* ---- the two linking passes over an imported and indexed store ----
\* the fragments of the multipart Document: ordinal i at position i, each
\* with a title or with another field
LinkedFragments ==
    {frags \in FragmentSeqs :
        /\ Len(frags) \in 1 .. 2
        /\ \A i \in DOMAIN frags : frags[i].volume = i}

\* the Document under PID 1 and legacy recid 1, flagged is_multipart, and
\* flagged has_serial when it lists serials
LinkedDocument(frags, serials) ==
    [MultipartDocument(1, 1, frags) EXCEPT
        !["_migration"] = [is_multipart |-> TRUE,
                           has_serial |-> serials # <<>>,
                           volumes |-> frags, serials |-> serials]]

\* the serial lists of a record: none, the title of the stored serial, or
\* a title no serial has
SerialLists == {<<>>, <<[title |-> "S", volume |-> 7]>>,
                <<[title |-> "Z", volume |-> 7]>>}

\* the Series: the serial "S" with child recid 1 under PID 3 and, when
\* imported, the multipart Series of legacy recid 1 under PID 2
LinkedSeries(multiparts, frags, serials) ==
    [p \in {2 : n \in 1 .. multiparts} \cup {3} |->
        IF p = 3 THEN Put(SerialParent(31, "S", <<1>>), "pid", 3)
        ELSE Put(MultipartParent(1, frags, serials), "pid", 2)]

InitLinking ==
    \E frags \in LinkedFragments, serials \in SerialLists,
       multiparts \in 0 .. 1, parent_serials \in SerialLists :
        /\ docs = (1 :> LinkedDocument(frags, serials)) /\ idxDocs = docs
        /\ series = LinkedSeries(multiparts, frags, parent_serials)
        /\ idxSeries = series
        /\ locs = <<>> /\ idxLocs = <<>>
        /\ libraries = <<>> /\ idxLibraries = <<>>
        /\ items = <<>> /\ idxItems = <<>> /\ idxPatrons = <<>>
        /\ loans = <<>> /\ rels = {}
        /\ accounts = AccountWorld(idxPatrons) /\ session = <<>>
        /\ nextPid = 10
        /\ run = Idle /\ last = Nothing

NextLinking ==
    \/ StartLinkMultipart
    \/ \E p \in DOMAIN idxDocs : LinkMultipartStep(p)
    \/ EndLinkMultipart
    \/ ReindexDocuments
    \/ StartLinkSerials
    \/ \E p \in Scanned : \E order \in ScanOrders(p) :
           LinkSerialsStep(p, order)
    \/ LinkSerialsOfMultiparts
    \/ EndLinkSerials

SpecLinking == InitLinking /\ [][NextLinking]_vars

\* ---- the validators over a linked store: one or two serials, a
\* multipart with its volume fragments, two Documents, and any set of
\* edges between them ----
ValidatedSerial(pid, recid, title, children) ==
    IF title = ""
    THEN [pid |-> pid, legacy_recid |-> recid, mode_of_issuance |-> "SERIAL",
          _migration |-> [children |-> children]]
    ELSE Put(SerialParent(recid, title, children), "pid", pid)
ValidatedDocument(pid, recid, title) ==
    IF recid = NoneVal
    THEN [pid |-> pid, title |-> title,
          _migration |-> [is_multipart |-> TRUE, has_serial |-> FALSE]]
    ELSE [pid |-> pid, legacy_recid |-> recid, title |-> title,
          _migration |-> [is_multipart |-> FALSE, has_serial |-> TRUE]]
ValidatedFragments ==
    {<<[volume |-> 1, title |-> "A"]>>,
     <<[volume |-> 1, title |-> "A"], [volume |-> 2, title |-> "B"]>>,
     <<[volume |-> 1, title |-> "A"], [volume |-> 1, note |-> "n"]>>}
ValidatedEdges ==
    {[parent |-> 1, child |-> 4, relation_type |-> "serial", volume |-> 1],
     [parent |-> 1, child |-> 5, relation_type |-> "serial", volume |-> 2],
     [parent |-> 2, child |-> 5, relation_type |-> "serial",
      volume |-> NoneVal],
     [parent |-> 3, child |-> 4, relation_type |-> "multipart_monograph",
      volume |-> 1],
     [parent |-> 3, child |-> 5, relation_type |-> "multipart_monograph",
      volume |-> 2]}

InitValidate ==
    \E title1 \in {"X", ""}, children1 \in {<<1>>, <<1, 2>>},
       title2 \in {"X", "Y"}, frags \in ValidatedFragments,
       recid5 \in {NoneVal, 2, 3}, title5 \in {"B", "Z"},
       edges \in SUBSET ValidatedEdges :
        /\ series = <<ValidatedSerial(1, 11, title1, children1),
                      ValidatedSerial(2, 12, title2, <<2>>),
                      Put(MultipartParent(3, frags, <<>>), "pid", 3)>>
        /\ idxSeries = series
        /\ docs = (4 :> ValidatedDocument(4, 1, "A"))
                      @@ (5 :> ValidatedDocument(5, recid5, title5))
        /\ idxDocs = docs
        /\ rels = edges
        /\ locs = <<>> /\ idxLocs = <<>>
        /\ libraries = <<>> /\ idxLibraries = <<>>
        /\ items = <<>> /\ idxItems = <<>> /\ idxPatrons = <<>>
        /\ loans = <<>>
        /\ accounts = <<>> /\ session = <<>>
        /\ nextPid = 10
        /\ run = Idle /\ last = Nothing

NextValidate ==
    \/ ValidateSerialRecords
    \/ ValidateMultipartRecords

SpecValidate == InitValidate /\ [][NextValidate]_vars

\* ---- the resolvers called on their own, over every index content ----
Counts == [1 .. MaxKey -> 0 .. MaxDup]

InitResolve ==
    \E cnt \in Counts :
        /\ docs = DocWorld(cnt) /\ idxDocs = docs
        /\ locs = LocWorld(cnt) /\ idxLocs = locs
        /\ libraries = <<>> /\ idxLibraries = <<>>
        /\ items = ItemWorld(cnt) /\ idxItems = items
        /\ series = SeriesWorld(cnt) /\ idxSeries = series
        /\ idxPatrons = PatronWorld(cnt)
        /\ loans = <<>> /\ rels = {}
        /\ accounts = AccountWorld(idxPatrons) /\ session = <<>>
        /\ nextPid = 100
        /\ run = Idle /\ last = Nothing

Called(resolver, key, res) ==
    /\ last' = [op |-> "resolve", resolver |-> resolver, key |-> key,
                res |-> res]
    /\ UNCHANGED <<stores, indexes, nextPid, run, session>>

ResolveDocument(k) ==
    Called("get_document_by_legacy_recid", k, get_document_by_legacy_recid(k))
ResolveItem(k) == Called("get_item_by_barcode", k, get_item_by_barcode(k))
ResolveInternalLocation(k) ==
    Called("get_internal_location_by_legacy_recid", k,
           get_internal_location_by_legacy_recid(k))
ResolveMultipart(k) ==
    Called("get_multipart_by_legacy_recid", k, get_multipart_by_legacy_recid(k))
ResolveUserByPersonId(k) ==
    Called("get_user_by_person_id", k, get_user_by_person_id(k))
ResolveUserByLegacyId(k) ==
    Called("get_user_by_legacy_id", k, get_user_by_legacy_id(k))

NextResolve ==
    \E k \in 1 .. MaxKey :
        \/ ResolveDocument(k)
        \/ ResolveItem(k)
        \/ ResolveInternalLocation(k)
        \/ ResolveMultipart(k)
        \/ ResolveUserByPersonId(k)
        \/ ResolveUserByLegacyId(k)

SpecResolve == InitResolve /\ [][NextResolve]_vars

\* ======================= the claims =======================

\* how many indexed records a natural key names
LocMatches(record) ==
    Cardinality(TermHits(idxLocs, "legacy_id", record.id_crcLIBRARY))
DocMatches(record) ==
    Cardinality(TermHits(idxDocs, "legacy_recid", record.id_bibrec))
BarcodeMatches(barcode) == Cardinality(TermHits(idxItems, "barcode", barcode))
ItemsIterated == last.op = "items" /\ Included(run.include, last.rec.barcode)

\* C1: an item record whose internal location or whose document matches no
\* record is skipped: no Item is created for it, no exception leaves
\* import_items_from_json and the loop goes on to the next record.
C1_UnresolvedIsSkipped ==
    (ItemsIterated /\ (LocMatches(last.rec) = 0 \/ DocMatches(last.rec) = 0))
        => (last.created = {} /\ last.end = "continue"
            /\ run.status = "running")

\* C2, as claimed: zero matches raise the entity's error in every resolver
\* but the two user lookups, one match returns the record, two or more raise.
ResolverIndex(resolver) ==
    CASE resolver = "get_document_by_legacy_recid" -> idxDocs
      [] resolver = "get_item_by_barcode" -> idxItems
      [] resolver = "get_internal_location_by_legacy_recid" -> idxLocs
      [] resolver = "get_multipart_by_legacy_recid" ->
            [p \in {q \in DOMAIN idxSeries :
                      idxSeries[q].mode_of_issuance = "MULTIPART_MONOGRAPH"}
                |-> idxSeries[p]]
      [] OTHER -> idxPatrons
ResolverField(resolver) ==
    CASE resolver \in {"get_document_by_legacy_recid",
                       "get_multipart_by_legacy_recid"} -> "legacy_recid"
      [] resolver = "get_item_by_barcode" -> "barcode"
      [] resolver = "get_user_by_person_id" -> "person_id"
      [] OTHER -> "legacy_id"
ResolverError(resolver) ==
    CASE resolver = "get_document_by_legacy_recid" -> "DocumentMigrationError"
      [] resolver \in {"get_item_by_barcode",
                       "get_internal_location_by_legacy_recid"} ->
            "ItemMigrationError"
      [] resolver = "get_multipart_by_legacy_recid" ->
            "MultipartMigrationError"
      [] OTHER -> "UserMigrationError"
UserLookups == {"get_user_by_person_id", "get_user_by_legacy_id"}
Matching(resolver, key) ==
    {p \in DOMAIN ResolverIndex(resolver) :
        ResolverIndex(resolver)[p][ResolverField(resolver)] = key}
CardinalityRule(returningNone) ==
    last.op = "resolve" =>
        LET found == Matching(last.resolver, last.key)
            n == Cardinality(found)
        IN  /\ n = 0 =>
                IF last.resolver \in returningNone
                THEN last.res.kind = "none"
                ELSE /\ last.res.kind = "raise"
                     /\ last.res.err = ResolverError(last.resolver)
            /\ n = 1 =>
                /\ last.res.kind = "ok"
                /\ last.res.rec.pid \in found
                /\ last.res.rec[ResolverField(last.resolver)] = last.key
            /\ n >= 2 =>
                /\ last.res.kind = "raise"
                /\ last.res.err = ResolverError(last.resolver)
C2_Original == CardinalityRule(UserLookups)

\* C2, amended: get_multipart_by_legacy_recid returns None on zero matches,
\* as the two user lookups do; the other resolvers raise their entity's error
\* on zero matches; every resolver returns the record on exactly one match
\* and raises its entity's error on two or more.
C2_ResolverCardinality ==
    CardinalityRule(UserLookups \cup {"get_multipart_by_legacy_recid"})

\* a multipart lookup that matched nothing and returned None
C2_Witness ==
    /\ last.op = "resolve"
    /\ last.resolver = "get_multipart_by_legacy_recid"
    /\ Matching(last.resolver, last.key) = {}
    /\ last.res.kind = "none"

\* C3: when a natural key of an item record matches more than one record
\* (internal location, document or barcode), the error leaves the
\* orchestrator, the loop stops and nothing is imported for the record.
C3_AmbiguousKeyAborts ==
    (/\ ItemsIterated
     /\ \/ last.loc.kind # "notcalled" /\ LocMatches(last.rec) > 1
        \/ last.doc.kind # "notcalled" /\ DocMatches(last.rec) > 1
        \/ last.item.kind # "notcalled" /\ BarcodeMatches(last.rec.barcode) > 1)
        => (run.status = "raised" /\ last.created = {})

\* C4: when one or more Items with the record's barcode are in the store and
\* in the search index, import_items_from_json creates no Item for the record.
C4_NoItemWhenBarcodeExists ==
    (ItemsIterated /\ BarcodeMatches(last.rec.barcode) >= 1)
        => last.created = {}

OrdinalsOf(frags) == {frags[i].volume : i \in DOMAIN frags}
FieldsOf(frags, n) ==
    UNION {DOMAIN frags[i] \ {"volume"} : i \in {j \in DOMAIN frags :
                                                  frags[j].volume = n}}
SharedKey(frags) ==
    \E i, j \in DOMAIN frags :
        /\ i < j /\ frags[i].volume = frags[j].volume
        /\ (DOMAIN frags[i] \cap DOMAIN frags[j]) \ {"volume"} # {}
Lowest(numbers) == CHOOSE x \in numbers : \A y \in numbers : x <= y
Splitting == last.op \in {"split", "link"}

\* C5: when the multipart Series of a hit's legacy_recid resolves, every
\* Document the Volume Splitter produces for the hit gets a
\* MULTIPART_MONOGRAPH edge from that Series, with the Document's own volume.
C5_EveryVolumeLinked ==
    (last.op = "link" /\ last.multipart.kind = "ok") =>
        \A i \in DOMAIN last.yielded :
            \E e \in rels :
                /\ e.child = last.yielded[i].pid
                /\ e.relation_type = "multipart_monograph"
                /\ e.parent \in MultipartHits(last.recid)
                /\ Has(last.yielded[i], "volume")
                /\ e.volume = last.yielded[i].volume

\* C6: without a duplicate key, create_multipart_volumes yields one Document
\* per distinct ordinal of the fragments, in ascending ordinal order, the
\* first under the parent PID and each other under a new PID of its own.
C6_OnePerOrdinalAscending ==
    (last.op = "split" /\ last.frags # <<>> /\ ~SharedKey(last.frags)) =>
        LET y == last.yielded
        IN  /\ Len(y) = Cardinality(OrdinalsOf(last.frags))
            /\ y[1].pid = last.pid
            /\ \A i \in 2 .. Len(y) :
                   /\ y[i].volume \in OrdinalsOf(last.frags)
                   /\ y[i].volume > Lowest(OrdinalsOf(last.frags))
                   /\ i > 2 => y[i - 1].volume < y[i].volume
                   /\ y[i].pid \in last.created
                   /\ \A j \in 1 .. (i - 1) : y[j].pid # y[i].pid

\* C7: fragments of one ordinal that share a field key raise the
\* duplicate-key error before any Document is changed or created; fragments
\* with disjoint keys are merged, without that error, into one volume per
\* ordinal that carries the union of their fields.
C7_DuplicateKeyOrUnion ==
    last.op = "split" =>
        IF SharedKey(last.frags)
        THEN /\ last.err = "KeyError: duplicate key"
             /\ last.yielded = <<>>
             /\ last.changed = {} /\ last.created = {}
        ELSE /\ last.err # "KeyError: duplicate key"
             /\ DOMAIN last.volumes = OrdinalsOf(last.frags)
             /\ \A n \in OrdinalsOf(last.frags) :
                    DOMAIN last.volumes[n] = FieldsOf(last.frags, n)
             /\ \A i \in DOMAIN last.frags :
                    \A k \in DOMAIN last.frags[i] \ {"volume"} :
                        last.volumes[last.frags[i].volume][k] = last.frags[i][k]

\* two fragments of one ordinal sharing a key made the call raise
C7_Witness ==
    /\ last.op = "split" /\ SharedKey(last.frags)
    /\ last.err = "KeyError: duplicate key"
    /\ Cardinality(OrdinalsOf(last.frags)) >= 2

\* C8: the Document of the lowest ordinal is the Document under the incoming
\* PID, updated in place and committed: title and volume come from the merged
\* fragment when it has a title, _migration.multipart_legacy_recid is the
\* given recid and legacy_recid is gone; no new Document is created for it,
\* and every yielded Document has no legacy_recid and carries
\* _migration.multipart_legacy_recid.
C8_FirstVolumeInPlace ==
    (Splitting /\ last.yielded # <<>>) =>
        LET first == last.yielded[1]
            lowest == Lowest(DOMAIN last.volumes)
            volume == last.volumes[lowest]
        IN  /\ first.pid = last.pid
            /\ docs[last.pid] = first
            /\ last.pid \notin last.created
            /\ Cardinality(last.created) = Len(last.yielded) - 1
            /\ IF Has(volume, "title")
               THEN first.title = volume.title /\ first.volume = lowest
               ELSE /\ first.title = last.before.title
                    /\ Has(first, "volume") = Has(last.before, "volume")
            /\ \A i \in DOMAIN last.yielded :
                   /\ ~Has(last.yielded[i], "legacy_recid")
                   /\ Has(last.yielded[i]._migration, "multipart_legacy_recid")
                   /\ last.yielded[i]._migration.multipart_legacy_recid
                          = last.recid
                   /\ docs[last.yielded[i].pid] = last.yielded[i]

\* a parent that had a legacy_recid became the first of several volumes
C8_Witness ==
    /\ Splitting /\ Len(last.yielded) >= 2
    /\ Has(last.before, "legacy_recid")
    /\ last.yielded[1].title # last.before.title
    /\ ~Has(docs[last.pid], "legacy_recid")

\* C9: a second call of create_multipart_volumes with the same parent PID,
\* recid and fragments ends as the first did and yields the same Documents,
\* field for field, but for the PIDs of the volumes after the first.
Outline(yielded) ==
    [i \in DOMAIN yielded |->
        IF i = 1 THEN yielded[i] ELSE Del(yielded[i], "pid")]
C9_SplitTwiceSame ==
    [][(/\ last.op = "split" /\ last'.op = "split"
        /\ last'.pid = last.pid /\ last'.recid = last.recid
        /\ last'.frags = last.frags)
           => (/\ Outline(last'.yielded) = Outline(last.yielded)
               /\ last'.err = last.err)]_vars

\* a call on a parent an earlier call already turned into the first volume
C9_Witness ==
    /\ last.op = "split" /\ Len(last.yielded) >= 2
    /\ ~Has(last.before, "legacy_recid")
    /\ Has(last.before._migration, "multipart_legacy_recid")
    /\ last.err = ""

\* ---- the loan orchestrator, record by record ----
LoansIterated == last.op = "loans"
ValidStatus == last.rec.status \in {"on loan", "returned"}
\* the Item the record's barcode names in the index
ItemOfBarcode(barcode) == FirstHit(TermHits(idxItems, "barcode", barcode))

\* C11: a loan record whose item resolves and whose status is neither
\* "on loan" nor "returned" makes import_loans_from_json fail with
\* LoanMigrationError, and no loan is created for it.
C11_UnknownStatusFails ==
    (LoansIterated /\ last.item.kind = "ok" /\ ~ValidStatus) =>
        /\ last.end = "raised" /\ run.status = "raised"
        /\ run.err = "LoanMigrationError"
        /\ last.created = {}

\* C12 as stated: whatever legacy_document_id is, the document check of a
\* record with a resolved item and a valid status raises nothing.
C12_Original ==
    (LoansIterated /\ last.item.kind = "ok" /\ ValidStatus) =>
        run.err # "LoanMigrationError"

\* C12: with a resolved item and a valid status, a legacy_document_id that
\* differs from the legacy_recid of the item's document is only reported and
\* the loan is created unless the store refuses it; a legacy_document_id of
\* None makes the orchestrator fail with LoanMigrationError.
C12_CrossCheckIsSoft ==
    (LoansIterated /\ last.item.kind = "ok" /\ ValidStatus) =>
        IF last.rec.legacy_document_id = NoneVal
        THEN /\ last.end = "raised" /\ run.err = "LoanMigrationError"
             /\ last.created = {}
        ELSE /\ last.warned =
                    (docs[last.item.rec.document_pid].legacy_recid
                         # last.rec.legacy_document_id)
             /\ \/ last.end = "committed" /\ Cardinality(last.created) = 1
                \/ last.end = "rolled back"
                \/ last.end = "raised" /\ run.err = "IlsValidationError"

\* a loan was created although the record names another document
C12_Witness ==
    /\ LoansIterated /\ last.warned
    /\ last.end = "committed" /\ last.created # {}

\* C13: a created loan points at the Item the record's barcode names and at
\* the document stored on that Item.
C13_LoanFollowsItem ==
    (LoansIterated /\ last.created # {}) =>
        /\ Cardinality(TermHits(idxItems, "barcode", last.rec.item_barcode)) = 1
        /\ \A p \in last.created :
               LET q == ItemOfBarcode(last.rec.item_barcode)
               IN  /\ loans[p].item_pid = q
                   /\ loans[p].document_pid = items[q].document_pid

\* a loan on the item's document, created from a record naming another one
C13_Witness ==
    /\ LoansIterated
    /\ \E p \in last.created :
           /\ loans[p].item_pid = ItemOfBarcode(last.rec.item_barcode)
           /\ docs[loans[p].document_pid].legacy_recid
                  # last.rec.legacy_document_id

\* C14: a loan record whose barcode matches no Item is skipped: nothing is
\* created, nothing is raised, and the loop goes on.
C14_MissingItemSkipped ==
    (LoansIterated /\ last.user.kind # "raise"
     /\ BarcodeMatches(last.rec.item_barcode) = 0) =>
        /\ last.end = "continue" /\ last.created = {}
        /\ run.status = "running" /\ run.err = ""

\* a record without Item was skipped after an earlier record gave a loan
C14_Witness ==
    /\ LoansIterated /\ last.end = "continue"
    /\ BarcodeMatches(last.rec.item_barcode) = 0
    /\ run.status = "running" /\ loans # <<>>

\* C15: the user orchestrator commits after each record it updates: when a
\* record with an ambiguous person id makes it fail, the accounts updated
\* for the earlier records of the run are committed.
C15_CommittedPerRecord ==
    (run.op = "users" /\ run.status = "raised"
     /\ run.err = "UserMigrationError") =>
        \A u \in run.handled :
            u \in DOMAIN accounts /\ Has(accounts[u], "legacy_id")

\* C16: a run of import_documents_from_record_file given a comma-separated
\* include string does not fail on the filter, and an entry gives a
\* Document exactly when its key is in the list (or no filter was given).
C16_IncludeFilters ==
    /\ (run.op = "documents" /\ run.given.type = "str") =>
           run.err # "AttributeError"
    /\ (last.op = "documents" /\ last.end \in {"imported", "filtered"}) =>
           ((last.created # {}) <=>
                (last.given.type = "None" \/ last.key \in last.given.keys))

\* the parents the dump records a child or a volume for
HasRecorded(parent, field) ==
    /\ "_migration" \in DOMAIN parent
    /\ field \in DOMAIN parent._migration
    /\ Len(parent._migration[field]) > 0

\* C17: without include filter, import_parents_from_file imports a parent
\* exactly when it is a serial with a recorded child or a multipart with a
\* recorded volume, and at the end of the run the index holds exactly the
\* imported records.
C17_ParentsWithChildrenOnly ==
    /\ (last.op = "parents" /\ last.include.type = "None"
        /\ last.end # "raised") =>
           /\ (last.created # {}) <=>
                  \/ last.rectype = "serial"
                     /\ HasRecorded(last.parent, "children")
                  \/ last.rectype = "multipart"
                     /\ HasRecorded(last.parent, "volumes")
           /\ \A p \in last.created :
                  series[p] = Put(last.parent, "pid", p)
    /\ (run.op = "parents" /\ run.status = "done") =>
           /\ last.records = DOMAIN series
           /\ idxSeries = series
    /\ \A p \in DOMAIN series :
           \/ HasRecorded(series[p], "children")
           \/ HasRecorded(series[p], "volumes")

\* a run without filter ended having imported and indexed one parent
C17_Witness ==
    /\ run.op = "parents" /\ run.status = "done"
    /\ run.include.type = "None"
    /\ Cardinality(DOMAIN series) = 1 /\ idxSeries = series

\* ---- the serial linking, record by record ----
\* the entries of the record's _migration.serials that carry the title
EntriesTitled(record, title) ==
    {i \in DOMAIN record._migration.serials :
        record._migration.serials[i].title = title}
ListedVolume(record, title) ==
    LET first == CHOOSE i \in EntriesTitled(record, title) :
                     \A j \in EntriesTitled(record, title) : i <= j
    IN  IF "volume" \in DOMAIN record._migration.serials[first]
        THEN record._migration.serials[first].volume ELSE NoneVal
\* the serials a pair can be formed with: indexed as SERIAL with the recid
\* among their children
SerialsOfChild(recid) ==
    {q \in DOMAIN idxSeries :
        /\ idxSeries[q].mode_of_issuance = "SERIAL"
        /\ recid \in Elements(idxSeries[q]._migration.children)}
LinkedRecord == IF last.cls = "Document" THEN docs[last.pid]
                ELSE series[last.pid]
EdgesOfPair(q, p) ==
    {e \in rels : e.parent = q /\ e.child = p /\ e.relation_type = "serial"}
\* the pairs of the iteration up to the first that cannot be linked
Reached(i) ==
    \A j \in 1 .. (i - 1) :
        /\ "title" \in DOMAIN series[last.order[j]]
        /\ EntriesTitled(LinkedRecord, series[last.order[j]].title) # {}

\* C18: link_documents_and_serials takes each record flagged has_serial
\* that has a legacy recid, and each SERIAL Series listing that recid among
\* its children: the pair gets one SERIAL edge whose volume is the one of
\* the first entry of the record's serials with the title of the Series, or
\* DocumentMigrationError and no edge when no entry has the title.
C18_SerialEdgePerPair ==
    (last.op = "link_serials" /\ last.end # "skipped") =>
        /\ flagged_has_serial(last.hit)
        /\ Elements(last.order) = SerialsOfChild(last.hit.legacy_recid)
        /\ \A i \in DOMAIN last.order :
               LET q == last.order[i]
               IN  (Reached(i) /\ "title" \in DOMAIN series[q]) =>
                       IF EntriesTitled(LinkedRecord, series[q].title) # {}
                       THEN EdgesOfPair(q, last.pid) =
                                {[parent |-> q, child |-> last.pid,
                                  relation_type |-> "serial",
                                  volume |-> ListedVolume(LinkedRecord,
                                                          series[q].title)]}
                       ELSE /\ EdgesOfPair(q, last.pid) = {}
                            /\ last.err = "DocumentMigrationError"
                            /\ run.status = "raised"

\* a record listing the title twice was linked with the first volume, to
\* two serials
C18_Witness ==
    /\ last.op = "link_serials" /\ last.end = "linked"
    /\ Len(last.order) = 2
    /\ \E q \in Elements(last.order) :
           /\ Cardinality(EntriesTitled(LinkedRecord, series[q].title)) = 2
           /\ \E e \in last.edges : e.parent = q /\ e.volume = 2

\* ---- the serial migration, end to end ----
\* the store holds one SERIAL Series with a title, and one Document per
\* recid of its children, each flagged has_serial and listing the title
\* with a volume
OneSerialWithItsDocuments ==
    /\ Cardinality(DOMAIN series) = 1
    /\ \A q \in DOMAIN series :
           /\ series[q].mode_of_issuance = "SERIAL"
           /\ "title" \in DOMAIN series[q]
           /\ Cardinality(DOMAIN docs) = Len(series[q]._migration.children)
           /\ \A r \in Elements(series[q]._migration.children) :
                  Cardinality({d \in DOMAIN docs :
                                  docs[d].legacy_recid = r}) = 1
           /\ \A d \in DOMAIN docs :
                  /\ docs[d]._migration.has_serial
                  /\ docs[d].legacy_recid
                         \in Elements(series[q]._migration.children)
                  /\ EntriesTitled(docs[d], series[q].title) # {}
                  /\ \A i \in EntriesTitled(docs[d], series[q].title) :
                         "volume" \in DOMAIN docs[d]._migration.serials[i]

\* C19: after the parents and the documents of such a dump were imported
\* and link_documents_and_serials has run, the Series has one SERIAL edge
\* per Document with the volume the Document lists for its title, and
\* validate_serial_records reports nothing.
C19_SerialScenario ==
    (last.op = "validate_serial" /\ OneSerialWithItsDocuments) =>
        /\ \A q \in DOMAIN series :
               rels = {[parent |-> q, child |-> d,
                        relation_type |-> "serial",
                        volume |-> ListedVolume(docs[d], series[q].title)] :
                           d \in DOMAIN docs}
        /\ Cardinality(rels) = Cardinality(DOMAIN docs)
        /\ last.findings = {} /\ last.err = ""

\* a serial with two children was validated after both were linked
C19_Witness ==
    /\ last.op = "validate_serial" /\ OneSerialWithItsDocuments
    /\ Cardinality(DOMAIN docs) = 2 /\ Cardinality(rels) = 2
    /\ last.findings = {}

\* C20: a validator changes no record, no edge and no index, and ends
\* without an error whatever it finds.
C20_ValidatorsOnlyReport ==
    [][last'.op \in {"validate_serial", "validate_multipart"} =>
           /\ UNCHANGED <<stores, indexes, nextPid, session>>
           /\ last'.err = "" /\ run'.status = "done"]_vars

\* the serial validator found a wrong count, an unexpected child and a
\* duplicate title, and ended
C20_Witness ==
    /\ last.op = "validate_serial" /\ run.status = "done"
    /\ \A kind \in {"incorrect number of children", "unexpected child",
                     "title already exists"} :
           \E f \in last.findings : f.kind = kind

\* C21: in both linking passes an iteration over a search hit that has no
\* legacy_recid is skipped: no resolver is called and the splitter is not
\* run, no Document or Series is created or modified, no PID is minted and
\* no relation edge is added.
LinkIterated ==
    /\ run.op \in {"link_multipart", "link_serials"}
    /\ run.status = "running"
    /\ run' # run
    /\ last'.op \in {"link", "link_serials"}

C21_HitWithoutRecidSkipped ==
    [][(LinkIterated /\ ~Has(last'.hit, "legacy_recid")) =>
           /\ last'.end = "skipped"
           /\ run'.status = "running"
           /\ docs' = docs /\ series' = series
           /\ rels' = rels /\ nextPid' = nextPid
           /\ last'.edges = {}
           /\ last'.op = "link" =>
                  /\ last'.multipart = NotCalled
                  /\ last'.yielded = <<>>
                  /\ last'.created = {} /\ last'.changed = {}
           /\ last'.op = "link_serials" => last'.order = <<>>]_vars

\* a volume Document cloned by the first pass, indexed without a
\* legacy_recid and flagged has_serial, met by the second pass
C21_Witness ==
    /\ last.op = "link_serials" /\ last.end = "skipped"
    /\ ~Has(last.hit, "legacy_recid")
    /\ flagged_has_serial(last.hit)
    /\ Has(last.hit, "volume") /\ last.hit.volume = 2
    /\ rels # {}

\* C24: every relation edge names records that exist in the store: its
\* parent is a stored Series and its child a stored Document or Series.
\* An edge added by an iteration of link_and_create_multipart_volumes
\* goes from the resolved multipart Series to a Document the splitter
\* yielded in that iteration, which is stored under its PID as yielded
\* with the volume the edge carries; an edge added by an iteration of
\* link_documents_and_serials goes from a stored serial to the record of
\* the hit.
StoredPids == DOMAIN docs \cup DOMAIN series

C24_EdgesAfterRecords ==
    /\ \A e \in rels : e.parent \in DOMAIN series /\ e.child \in StoredPids
    /\ last.op = "link" =>
           \A e \in last.edges :
               /\ last.multipart.kind = "ok"
               /\ e.parent = last.multipart.rec.pid
               /\ series[e.parent] = last.multipart.rec
               /\ e.child \in DOMAIN docs
               /\ \E i \in DOMAIN last.yielded :
                      /\ last.yielded[i].pid = e.child
                      /\ docs[e.child] = last.yielded[i]
                      /\ e.volume = last.yielded[i].volume
    /\ last.op = "link_serials" =>
           \A e \in last.edges :
               /\ e.child = last.pid
               /\ e.parent \in DOMAIN series
               /\ series[e.parent].mode_of_issuance = "SERIAL"

\* an iteration that linked the re-used Document and a newly created
\* volume Document to the multipart Series
C24_Witness ==
    /\ last.op = "link" /\ last.end = "linked"
    /\ last.created # {}
    /\ \A p \in last.created : \E e \in last.edges : e.child = p
    /\ \E e \in last.edges : e.child = last.pid

\* C26: an iteration of a run of link_and_create_multipart_volumes that
\* was started after a complete run, with the index holding the Documents
\* as stored, meets a hit without legacy_recid and skips it: it creates
\* no Document, changes no Document, mints no PID and adds no edge, and
\* the run ends without an error.
SecondRun ==
    /\ run.op = "link_multipart" /\ run.status = "running" /\ run.rerun

C26_SecondRunIsNoOp ==
    [][SecondRun =>
           /\ docs' = docs /\ rels' = rels /\ nextPid' = nextPid
           /\ series' = series
           /\ run'.status \in {"running", "done"}
           /\ (last'.op = "link") =>
                  /\ ~Has(last'.hit, "legacy_recid")
                  /\ last'.end = "skipped"
                  /\ last'.created = {} /\ last'.changed = {}
                  /\ last'.edges = {}]_vars

\* the second run has met the Document the first run split into two
\* volumes and linked
C26_Witness ==
    /\ SecondRun
    /\ last.op = "link" /\ last.end = "skipped" /\ last.pid = 1
    /\ ~Has(docs[1], "legacy_recid")
    /\ Cardinality(DOMAIN docs) >= 2
    /\ rels # {}

\* C25: when import_documents_from_record_file ends, the records it hands
\* to bulk_index_records are all the Documents it imported from all its
\* sources (the store started empty, so these are all stored Documents).
C25_AllImportedIndexed ==
    (last.op = "documents indexed") => last.records = DOMAIN docs

\* C23: when the per-record commit of import_items_from_json or
\* import_loans_from_json raises, the session is rolled back and the loop
\* goes on: the run is still running and carries no error, the Items and
\* Loans committed before are all still stored and unchanged, nothing new
\* is stored, and nothing is left pending in the session. No step of
\* either orchestrator removes or changes a committed record.
Committed(store, after) ==
    \A p \in DOMAIN store : p \in DOMAIN after /\ after[p] = store[p]

C23_CommitFailureRolledBack ==
    [][/\ Committed(items, items') /\ Committed(loans, loans')
       /\ (last'.op \in {"items", "loans"} /\ last'.end = "rolled back") =>
              /\ items' = items /\ loans' = loans
              /\ last'.created = {}
              /\ session' = <<>>
              /\ run'.status = "running" /\ run'.err = ""]_vars

\* a commit failed after an earlier record was committed, and a later
\* record may still be processed
C23_Witness ==
    /\ last.op = "items" /\ last.end = "rolled back"
    /\ items # <<>>
    /\ session = <<>>
    /\ run.op = "items" /\ run.status = "running"
    /\ Cardinality(DOMAIN items) < MaxItems

\* C22: an iteration of import_internal_locations_from_json over an entry
\* that passes the include test and whose import does not raise creates
\* exactly one record: a Library and no InternalLocation when the type of
\* the entry is "external", else an InternalLocation and no Library, whose
\* location_pid is the default location PID. The record has no type
\* field, and its other fields are those of the entry with the legacy_id
\* as a string. A run that reaches its end has created one record for
\* each entry of the dump that passes the include test, and no other.
IsExternal(record) == Has(record, "type") /\ record.type = "external"

ImportedAs(record, rec, pid) ==
    /\ ~Has(rec, "type")
    /\ rec.pid = pid
    /\ rec.legacy_id = str(record.legacy_id)
    /\ \A k \in DOMAIN record \ {"type", "legacy_id", "location_pid"} :
           Has(rec, k) /\ rec[k] = record[k]

PassingEntries(dump, include_ids) ==
    {i \in DOMAIN dump : legacy_id_included(include_ids, dump[i].legacy_id)}

C22_OneRecordPerEntry ==
    /\ \A p \in DOMAIN libraries : ~Has(libraries[p], "type")
    /\ \A p \in DOMAIN locs :
           /\ ~Has(locs[p], "type")
           /\ locs[p].location_pid = default_location_pid_value
    /\ DOMAIN libraries \cap DOMAIN locs = {}
    /\ (last.op = "locations" /\ last.end = "imported") =>
           /\ Cardinality(last.libraries \cup last.locations) = 1
           /\ IF IsExternal(last.record)
              THEN /\ last.locations = {}
                   /\ \A p \in last.libraries :
                          /\ p \in DOMAIN libraries /\ p \notin DOMAIN locs
                          /\ ImportedAs(last.record, libraries[p], p)
                          /\ Has(libraries[p], "location_pid")
                                 = Has(last.record, "location_pid")
              ELSE /\ last.libraries = {}
                   /\ \A p \in last.locations :
                          /\ p \in DOMAIN locs /\ p \notin DOMAIN libraries
                          /\ ImportedAs(last.record, locs[p], p)
    /\ (run.op = "locations" /\ run.status = "done") =>
           LET passing == PassingEntries(run.dump, run.include_ids)
           IN  /\ Cardinality(DOMAIN libraries)
                      = Cardinality({i \in passing : IsExternal(run.dump[i])})
               /\ Cardinality(DOMAIN locs)
                      = Cardinality({i \in passing :
                                        ~IsExternal(run.dump[i])})
               /\ run.records = DOMAIN libraries \cup DOMAIN locs

\* an InternalLocation was imported from an entry with a type other than
\* "external", after a Library was imported from an external entry
C22_Witness ==
    /\ last.op = "locations" /\ last.end = "imported"
    /\ Has(last.record, "type") /\ last.record.type = "main"
    /\ last.locations # {}
    /\ libraries # <<>>

====
